---- MODULE Spec2Model ----
(***************************************************************************)
(* Reconciliation engine of sysconf: Diff, the domain-action plan          *)
(* (SystemManager.get_domain_actions), the execution loop                  *)
(* (SystemManager.run_actions) and the config transitioner                 *)
(* (SystemConfigInterpolator).                                             *)
(***************************************************************************)
EXTENDS Integers, Sequences, FiniteSets, TLC

\* ------------------------------------------------------------------ bounds
\* longest before/after script list of a document
MaxScripts == 2
\* most entries of one document (plan specification)
MaxEntries == 3
\* most scripts and entries of the old and the new document together
\* (execution-loop specification)
MaxItems == 4
\* most config entries of the old and the new document together
\* (apply specification)
MaxDocEntries == 3
\* most before and after scripts of a document together (parser specification)
MaxDocScripts == 2

\* ---------------------------------------------------------------- universe
Scripts == {"s1", "s2"}
NoneScript == "None"

BuiltinKeys == {"dconf", "apt"}

\* dconf is a map domain (value is not part of the identity), apt is a list
\* domain (value is part of the identity).
DomainKind(key) == IF key = "apt" THEN "list" ELSE "map"

MapEntries == [domain : {"dconf"}, path : {<<"k1">>, <<"k2">>}, value : {"a", "b"}]
ListEntries == [domain : {"apt"}, path : {<<>>}, value : {"x"}]
Entries == MapEntries \cup ListEntries
NoneEntry == [domain |-> "None", path |-> <<>>, value |-> "None"]

\* MapConfigEntry.get_id / ListConfigEntry.get_id
get_id(entry) ==
    IF DomainKind(entry.domain) = "list"
    THEN <<entry.domain>> \o entry.path \o <<entry.value>>
    ELSE <<entry.domain>> \o entry.path

\* ------------------------------------------------------------ sequence help
Range(s) == {s[k] : k \in 1..Len(s)}
In(x, s) == \E k \in 1..Len(s) : s[k] = x
Reverse(s) == [k \in 1..Len(s) |-> s[Len(s) + 1 - k]]
SeqsUpTo(S, n) == UNION {[1..k -> S] : k \in 0..n}

\* index of the first occurrence of x in s (0 when absent)
IndexOf(x, s) ==
    IF In(x, s) THEN CHOOSE k \in 1..Len(s) : s[k] = x /\ \A j \in 1..(k - 1) : s[j] # x
    ELSE 0

\* Python list.remove(x): drops the first occurrence
ListRemove(s, x) ==
    LET k == IndexOf(x, s)
    IN  [j \in 1..(Len(s) - 1) |-> IF j < k THEN s[j] ELSE s[j + 1]]

\* --------------------------------------------------------------------- Diff
\* create_from_iterables with exclusive_old not filtered by new_items
create_from_iterables_KeepsAllOld(old_items, new_items) ==
    LET exclusive_new == SelectSeq(new_items, LAMBDA item : ~In(item, old_items))
        intersection  == SelectSeq(new_items, LAMBDA item : In(item, old_items))
    IN  [old |-> old_items,
         new |-> new_items,
         exclusive_old |-> old_items,
         exclusive_new |-> exclusive_new,
         intersection |-> intersection,
         union |-> old_items \o new_items]

\* create_from_iterables with the intersection taken from old_items
create_from_iterables_OldOrder(old_items, new_items) ==
    LET exclusive_old == SelectSeq(old_items, LAMBDA item : ~In(item, new_items))
        exclusive_new == SelectSeq(new_items, LAMBDA item : ~In(item, old_items))
        intersection  == SelectSeq(old_items, LAMBDA item : In(item, new_items))
    IN  [old |-> old_items,
         new |-> new_items,
         exclusive_old |-> exclusive_old,
         exclusive_new |-> exclusive_new,
         intersection |-> intersection,
         union |-> exclusive_old \o new_items]

\* create_from_iterables with an intersection that is always empty
create_from_iterables_NoIntersection(old_items, new_items) ==
    LET exclusive_old == SelectSeq(old_items, LAMBDA item : ~In(item, new_items))
        exclusive_new == SelectSeq(new_items, LAMBDA item : ~In(item, old_items))
    IN  [old |-> old_items,
         new |-> new_items,
         exclusive_old |-> exclusive_old,
         exclusive_new |-> exclusive_new,
         intersection |-> <<>>,
         union |-> exclusive_old \o new_items]

\* Diff.create_from_iterables
create_from_iterables(old_items, new_items) ==
    LET exclusive_old == SelectSeq(old_items, LAMBDA item : ~In(item, new_items))
        exclusive_new == SelectSeq(new_items, LAMBDA item : ~In(item, old_items))
        intersection  == SelectSeq(new_items, LAMBDA item : In(item, old_items))
    IN  [old |-> old_items,
         new |-> new_items,
         exclusive_old |-> exclusive_old,
         exclusive_new |-> exclusive_new,
         intersection |-> intersection,
         union |-> exclusive_old \o new_items]

\* Diff.get_entries: the (old?, new?) pair stream
get_entries(diff, none) ==
    [k \in 1..Len(diff.exclusive_old) |->
        [old_item |-> diff.exclusive_old[k], new_item |-> none]]
    \o
    [k \in 1..Len(diff.new) |->
        [old_item |-> IF In(diff.new[k], diff.intersection) THEN diff.new[k] ELSE none,
         new_item |-> diff.new[k]]]

\* ------------------------------------------------------------------ domains
\* MapDomain.get_action with an Update for every pair of present entries
MapDomain_get_action_UpdatesEqual(old_entry, new_entry) ==
    IF old_entry = NoneEntry /\ new_entry = NoneEntry THEN "AssertionError"
    ELSE IF old_entry # NoneEntry /\ new_entry # NoneEntry THEN "Update"
    ELSE IF old_entry # NoneEntry THEN "Remove"
    ELSE "Add"

\* MapDomain.get_action: which action the pair (old?, new?) gives; its
\* `return None  # no change` is named NoOp, a failed
\* `assert old_entry is not None or new_entry is not None` AssertionError
MapDomain_get_action(old_entry, new_entry) ==
    IF old_entry = NoneEntry /\ new_entry = NoneEntry THEN "AssertionError"
    ELSE IF old_entry # NoneEntry /\ new_entry # NoneEntry
    THEN IF old_entry.value # new_entry.value THEN "Update" ELSE "NoOp"
    ELSE IF old_entry # NoneEntry THEN "Remove"
    ELSE "Add"

\* ListDomain.get_action
ListDomain_get_action(old_entry, new_entry) ==
    IF old_entry = NoneEntry /\ new_entry = NoneEntry THEN "AssertionError"
    ELSE IF old_entry # NoneEntry /\ new_entry # NoneEntry THEN "NoOp"
    ELSE IF old_entry # NoneEntry THEN "Remove"
    ELSE "Add"

\* NoDomainAction: the action of an unchanged entry; it carries both entries
NoDomainAction(old_entry, new_entry) ==
    [kind |-> "NoOp", old_entry |-> old_entry, new_entry |-> new_entry]

\* domain.get_action(old_entry, new_entry): the Add, Update or Remove action
\* with the entries it carries (get_old_entry / get_new_entry), or the
\* NoDomainAction
get_action(domain, old_entry, new_entry) ==
    LET foreign(entry) == entry # NoneEntry /\ entry.domain # domain
        kind == IF foreign(old_entry) \/ foreign(new_entry)
                THEN \* the isinstance and get_domain() == self assertions
                     "AssertionError"
                ELSE IF DomainKind(domain) = "list"
                THEN ListDomain_get_action(old_entry, new_entry)
                ELSE MapDomain_get_action(old_entry, new_entry)
    IN  IF kind = "NoOp" THEN NoDomainAction(old_entry, new_entry)
        ELSE [kind |-> kind, old_entry |-> old_entry, new_entry |-> new_entry]

\* ------------------------------------------------------------- SystemConfig
NoDomains == [k \in {} |-> "none"]

SystemConfig(before_actions, after_actions, config_entries, domains) ==
    [before_actions |-> before_actions,
     after_actions |-> after_actions,
     config_entries |-> config_entries,
     domains |-> domains]

\* config_entries.keys(): the EntryIds in insertion order
Keys(config) == [k \in 1..Len(config.config_entries) |-> get_id(config.config_entries[k])]

\* config_entries[entry_id]
EntryOf(config, entry_id) == config.config_entries[IndexOf(entry_id, Keys(config))]

DistinctIds(entries) ==
    \A j, k \in 1..Len(entries) : get_id(entries[j]) = get_id(entries[k]) => j = k

ScriptLists == SeqsUpTo(Scripts, MaxScripts)
EntryLists == {es \in SeqsUpTo(Entries, MaxEntries) : DistinctIds(es)}

\* ---------------------------------------------------------------- documents
\* keys a document's `domains` section may declare: a key of its own, or the
\* key of a built-in
DeclarableKeys == {"u", "dconf"}

\* the specification (type, depth, scripts) a document gives a declared key
DomainSpecs(key) == IF key \in BuiltinKeys THEN {"d1"} ELSE {"d1", "d2"}

\* the `domains` sections a document may have
DomainSections ==
    UNION {{f \in [K -> {"d1", "d2"}] : \A k \in K : f[k] \in DomainSpecs(k)} :
                K \in SUBSET DeclarableKeys}

\* the entries a document's `config` section may list, flattened
DocEntries ==
    {[domain |-> "u", path |-> <<"k1">>, value |-> "a"],
     [domain |-> "u", path |-> <<"k2">>, value |-> "a"],
     [domain |-> "dconf", path |-> <<"k1">>, value |-> "a"],
     [domain |-> "dconf", path |-> <<"k1">>, value |-> "b"]}

\* the deserialized document: its `domains`, `before`, `after` and `config`
\* (an absent `domains`, `before` or `after` key reads as an empty one:
\* `data.get(..) or ..`), and whether it has a `config` key at all
Document(domains, before, after, config) ==
    [domains |-> domains, before |-> before, after |-> after, config |-> config,
     has_config |-> TRUE]

NoDocument == Document(NoDomains, <<>>, <<>>, <<>>)

\* the document `version: 1`, with no other key
VersionOnlyDocument == [NoDocument EXCEPT !.has_config = FALSE]
NoDocuments == [old |-> NoDocument, new |-> NoDocument]

\* parse_data without the duplicate-EntryId assertion of create_from_entries
parse_data_NoIdCheck(data) ==
    LET domains == BuiltinKeys \cup DOMAIN data.domains
    IN  IF ~data.has_config
        THEN \* assert 'config' in data
             [status |-> "raised", config |-> SystemConfig(<<>>, <<>>, <<>>, NoDomains)]
        ELSE IF \E k \in 1..Len(data.config) : data.config[k].domain \notin domains
        THEN [status |-> "raised", config |-> SystemConfig(<<>>, <<>>, <<>>, NoDomains)]
        ELSE [status |-> "parsed",
              config |-> SystemConfig(data.before, data.after, data.config, data.domains)]

\* SystemConfigParserV1.parse_data: the user domains are laid over the
\* built-in ones, the scripts are taken as listed, an entry whose domain key
\* is neither declared nor built-in is a KeyError, and
\* SystemConfig.create_from_entries asserts that no EntryId repeats.
parse_data(data) ==
    LET domains == BuiltinKeys \cup DOMAIN data.domains
    IN  IF ~data.has_config
        THEN \* assert 'config' in data
             [status |-> "raised", config |-> SystemConfig(<<>>, <<>>, <<>>, NoDomains)]
        ELSE IF \E k \in 1..Len(data.config) : data.config[k].domain \notin domains
        THEN [status |-> "raised", config |-> SystemConfig(<<>>, <<>>, <<>>, NoDomains)]
        ELSE IF ~DistinctIds(data.config)
        THEN [status |-> "raised", config |-> SystemConfig(<<>>, <<>>, <<>>, NoDomains)]
        ELSE [status |-> "parsed",
              config |-> SystemConfig(data.before, data.after, data.config, data.domains)]

\* SystemConfigRenderer.render_config: every user domain of the config, the
\* scripts and the entries
render_config(system_config) ==
    Document(system_config.domains, system_config.before_actions,
             system_config.after_actions, system_config.config_entries)

\* ------------------------------------------------------ PromptUserErrorHandler
\* for _ in range(5)
MaxAttempts == 5

\* what a call of the task does: it returns, raises an exception of
\* self.exceptions, or raises another exception
TaskOutcomes == {"returns", "whitelisted", "other"}

\* input('r/s/a/m: ').strip().lower(): the four choices, any other text, or
\* an interrupt at the prompt
Choices == {"r", "s", "a", "m", "invalid", "KeyboardInterrupt"}

\* a call of try_run: where it is, the iteration of the for loop, how often
\* the task was run, the answers read so far, what the call gave, and what
\* each call of the task did
Handler(at, attempt, runs, answers, status) ==
    [at |-> at, attempt |-> attempt, runs |-> runs, answers |-> answers,
     status |-> status, outcomes |-> <<>>]

IdleHandler == Handler("idle", 0, 0, <<>>, "none")

\* ------------------------------------------------------ SequenceTransitioner
Items == {"a", "b", "c"}
NoneItem == "None"

\* SequenceTransitioner.__init__, with the list it was created from, the
\* arguments and the outcome of the last update_item call, the number of
\* calls, and whether every call so far passed its assertions
SequenceTransitioner(old_items, new_items) ==
    [old_items |-> old_items, new_items |-> new_items, initial |-> old_items,
     last |-> [old_item |-> NoneItem, new_item |-> NoneItem, raised |-> FALSE],
     calls |-> 0, legal |-> TRUE]

\* SequenceTransitioner.create_from_old_items
create_from_old_items(old_items) == SequenceTransitioner(old_items, <<>>)

IdleTransitioner == create_from_old_items(<<>>)

\* update_item without the `new_item not in self.new_items` assertion
update_item_NoNewCheck(t, old_item, new_item) ==
    IF old_item = NoneItem /\ new_item = NoneItem
    THEN [raised |-> TRUE, old_items |-> t.old_items, new_items |-> t.new_items]
    ELSE IF old_item # NoneItem /\ ~In(old_item, t.old_items)
    THEN [raised |-> TRUE, old_items |-> t.old_items, new_items |-> t.new_items]
    ELSE [raised |-> FALSE,
          old_items |-> IF old_item # NoneItem THEN ListRemove(t.old_items, old_item)
                        ELSE t.old_items,
          new_items |-> IF new_item # NoneItem THEN Append(t.new_items, new_item)
                        ELSE t.new_items]

\* SequenceTransitioner.update_item: the assertions in the order they are
\* written, list.remove between the second and the third, then list.append.
\* raised = an AssertionError left the call.
update_item(t, old_item, new_item) ==
    IF old_item = NoneItem /\ new_item = NoneItem
    THEN [raised |-> TRUE, old_items |-> t.old_items, new_items |-> t.new_items]
    ELSE IF old_item # NoneItem /\ ~In(old_item, t.old_items)
    THEN [raised |-> TRUE, old_items |-> t.old_items, new_items |-> t.new_items]
    ELSE LET removed == IF old_item # NoneItem THEN ListRemove(t.old_items, old_item)
                        ELSE t.old_items
         IN  IF new_item # NoneItem /\ In(new_item, t.new_items)
             THEN [raised |-> TRUE, old_items |-> removed, new_items |-> t.new_items]
             ELSE [raised |-> FALSE, old_items |-> removed,
                   new_items |-> IF new_item # NoneItem THEN Append(t.new_items, new_item)
                                 ELSE t.new_items]

\* SequenceTransitioner.update_item on a list whose item type writes None as
\* `none` (scripts and config entries have a None of their own here)
update_item_of(t, old_item, new_item, none) ==
    IF old_item = none /\ new_item = none
    THEN [raised |-> TRUE, old_items |-> t.old_items, new_items |-> t.new_items]
    ELSE IF old_item # none /\ ~In(old_item, t.old_items)
    THEN [raised |-> TRUE, old_items |-> t.old_items, new_items |-> t.new_items]
    ELSE LET removed == IF old_item # none THEN ListRemove(t.old_items, old_item)
                        ELSE t.old_items
         IN  IF new_item # none /\ In(new_item, t.new_items)
             THEN [raised |-> TRUE, old_items |-> removed, new_items |-> t.new_items]
             ELSE [raised |-> FALSE, old_items |-> removed,
                   new_items |-> IF new_item # none THEN Append(t.new_items, new_item)
                                 ELSE t.new_items]

\* SequenceTransitioner.get_current_items
get_current_items(t) == t.new_items \o t.old_items

\* ------------------------------------------------------ pure function calls
\* a call of a function: its name, its arguments and what it gave
NoCall == [fn |-> "none", args |-> <<>>, value |-> <<>>]

VARIABLES old_config, new_config, pc, idx, actions, before_entries, after_entries,
          interp, result, log, stdout, committed, documents, written, handler,
          writes, transitioner, call

\* the state around run_actions: the two documents read from disk, the
\* document written back, and the error handler's call in progress
io_vars == <<documents, written, handler, writes, transitioner, call>>

\* a SequenceTransitioner on its own and a call of a pure function
unit_vars == <<transitioner, call>>

vars == <<old_config, new_config, pc, idx, actions, before_entries, after_entries,
          interp, result, log, stdout, committed, documents, written, handler,
          writes, transitioner, call>>


\* -------------------------------------------------------------------- plan
\* get_domain_actions with the additions put before the removals
get_domain_actions_AddFirst(old, new) ==
    LET domain_diff == create_from_iterables(Keys(old), Keys(new))
        removed == Reverse(domain_diff.exclusive_old)
    IN  [k \in 1..Len(domain_diff.new) |->
            LET key == domain_diff.new[k]
                old_entry == IF In(key, Keys(old)) THEN EntryOf(old, key) ELSE NoneEntry
                new_entry == EntryOf(new, key)
            IN  get_action(new_entry.domain, old_entry, new_entry)]
        \o
        [k \in 1..Len(removed) |->
            get_action(EntryOf(old, removed[k]).domain, EntryOf(old, removed[k]), NoneEntry)]

\* get_domain_actions with the removals in old_config's order (no reversed())
get_domain_actions_NotReversed(old, new) ==
    LET domain_diff == create_from_iterables(Keys(old), Keys(new))
        removed == domain_diff.exclusive_old
    IN  [k \in 1..Len(removed) |->
            get_action(EntryOf(old, removed[k]).domain, EntryOf(old, removed[k]), NoneEntry)]
        \o
        [k \in 1..Len(domain_diff.new) |->
            LET key == domain_diff.new[k]
                old_entry == IF In(key, Keys(old)) THEN EntryOf(old, key) ELSE NoneEntry
                new_entry == EntryOf(new, key)
            IN  get_action(new_entry.domain, old_entry, new_entry)]

\* get_domain_actions with the additions grouped: the new-only ids first,
\* then the ids both documents have
get_domain_actions_Grouped(old, new) ==
    LET domain_diff == create_from_iterables(Keys(old), Keys(new))
        removed == Reverse(domain_diff.exclusive_old)
        grouped == domain_diff.exclusive_new \o domain_diff.intersection
    IN  [k \in 1..Len(removed) |->
            get_action(EntryOf(old, removed[k]).domain, EntryOf(old, removed[k]), NoneEntry)]
        \o
        [k \in 1..Len(grouped) |->
            LET key == grouped[k]
                old_entry == IF In(key, Keys(old)) THEN EntryOf(old, key) ELSE NoneEntry
                new_entry == EntryOf(new, key)
            IN  get_action(new_entry.domain, old_entry, new_entry)]

\* SystemManager.get_domain_actions
get_domain_actions(old, new) ==
    LET domain_diff == create_from_iterables(Keys(old), Keys(new))
        removed == Reverse(domain_diff.exclusive_old)
        removals ==
            [k \in 1..Len(removed) |->
                LET old_entry == EntryOf(old, removed[k])
                IN  get_action(old_entry.domain, old_entry, NoneEntry)]
        additions ==
            [k \in 1..Len(domain_diff.new) |->
                LET key == domain_diff.new[k]
                    old_entry == IF In(key, Keys(old)) THEN EntryOf(old, key) ELSE NoneEntry
                    new_entry == EntryOf(new, key)
                IN  get_action(new_entry.domain, old_entry, new_entry)]
    IN  removals \o additions

\* `old_entry.get_domain() == self` in MapDomain.get_action: Domain defines no
\* __eq__, so two domain objects are equal only when they are one object, the
\* built-in of the registry; every parse makes its own object for a key the
\* document declares.
SameDomainObject(old, new, key) ==
    key \notin DOMAIN old.domains /\ key \notin DOMAIN new.domains

\* get_domain_actions raises: the assertion of MapDomain.get_action fails for
\* an entry both configs hold whose domain objects differ
get_domain_actions_raises(old, new) ==
    \E k \in 1..Len(new.config_entries) :
        LET new_entry == new.config_entries[k]
        IN  /\ In(get_id(new_entry), Keys(old))
            /\ DomainKind(new_entry.domain) = "map"
            /\ ~SameDomainObject(old, new, new_entry.domain)

\* has_changes that counts a NoOp action as a change
has_changes_AnyAction(old, new) ==
    \/ old.before_actions # new.before_actions
    \/ old.after_actions # new.after_actions
    \/ Len(get_domain_actions(old, new)) > 0

\* has_changes of run_actions
has_changes(old, new) ==
    \/ old.before_actions # new.before_actions
    \/ old.after_actions # new.after_actions
    \/ \E k \in 1..Len(get_domain_actions(old, new)) :
            get_domain_actions(old, new)[k].kind # "NoOp"

\* ------------------------------------------------ SystemConfigInterpolator
\* SystemConfigInterpolator.create_from_system_config
create_from_system_config(system_config) ==
    [old_before_actions |-> system_config.before_actions,
     new_before_actions |-> <<>>,
     old_after_actions |-> system_config.after_actions,
     new_after_actions |-> <<>>,
     old_config_entries |-> system_config.config_entries,
     new_config_entries |-> <<>>,
     old_domains |-> system_config.domains,
     new_domains |-> NoDomains]

\* The body shared by update_before_action, update_after_action and
\* update_config_entry: the three assertions, list.remove and list.append.
\* raised = an AssertionError left the call; old/new = the lists afterwards.
update_lists(old_items, new_items, old_item, new_item, none) ==
    IF old_item = none /\ new_item = none
    THEN [raised |-> TRUE, old |-> old_items, new |-> new_items]
    ELSE IF old_item # none /\ ~In(old_item, old_items)
    THEN [raised |-> TRUE, old |-> old_items, new |-> new_items]
    ELSE LET removed == IF old_item # none THEN ListRemove(old_items, old_item)
                        ELSE old_items
         IN  IF new_item # none /\ In(new_item, new_items)
             THEN [raised |-> TRUE, old |-> removed, new |-> new_items]
             ELSE [raised |-> FALSE, old |-> removed,
                   new |-> IF new_item # none THEN Append(new_items, new_item)
                           ELSE new_items]

\* SystemConfigInterpolator.update_before_action
update_before_action(ci, old_action, new_action) ==
    LET u == update_lists(ci.old_before_actions, ci.new_before_actions,
                          old_action, new_action, NoneScript)
    IN  [raised |-> u.raised,
         ci |-> [ci EXCEPT !.old_before_actions = u.old, !.new_before_actions = u.new]]

\* SystemConfigInterpolator.update_after_action
update_after_action(ci, old_action, new_action) ==
    LET u == update_lists(ci.old_after_actions, ci.new_after_actions,
                          old_action, new_action, NoneScript)
    IN  [raised |-> u.raised,
         ci |-> [ci EXCEPT !.old_after_actions = u.old, !.new_after_actions = u.new]]

\* SystemConfigInterpolator.update_config_entry
update_config_entry(ci, old_entry, new_entry) ==
    LET u == update_lists(ci.old_config_entries, ci.new_config_entries,
                          old_entry, new_entry, NoneEntry)
    IN  [raised |-> u.raised,
         ci |-> [ci EXCEPT !.old_config_entries = u.old, !.new_config_entries = u.new]]

\* get_system_config without the old items not consumed yet
get_system_config_NewOnly(ci) ==
    SystemConfig(ci.new_before_actions, ci.new_after_actions, ci.new_config_entries,
                 NoDomains)

\* SystemConfigInterpolator.get_system_config: new items first, then the old
\* items not consumed yet; user domains picked by use.
get_system_config(ci) ==
    LET config_entries == ci.new_config_entries \o ci.old_config_entries
        used_domain_keys == {config_entries[k].domain : k \in 1..Len(config_entries)}
        from_new == {k \in DOMAIN ci.new_domains : k \in used_domain_keys}
        from_old == {k \in DOMAIN ci.old_domains :
                        /\ k \in used_domain_keys
                        /\ k \notin DOMAIN ci.new_domains
                        /\ k \notin BuiltinKeys}
    IN  SystemConfig(
            ci.new_before_actions \o ci.old_before_actions,
            ci.new_after_actions \o ci.old_after_actions,
            config_entries,
            [k \in from_new \cup from_old |->
                IF k \in from_new THEN ci.new_domains[k] ELSE ci.old_domains[k]])

\* What a call of get_system_config gives its caller: the config, or the
\* AssertionError of SystemConfig.create_from_entries on a duplicate EntryId.
Returned(ci) ==
    IF DistinctIds(get_system_config(ci).config_entries)
    THEN [status |-> "returned", config |-> get_system_config(ci)]
    ELSE [status |-> "raised", config |-> get_system_config(ci)]


\* ------------------------------------------------------------ run_actions
EmptyConfig == SystemConfig(<<>>, <<>>, <<>>, NoDomains)
NoResult == [status |-> "none", config |-> EmptyConfig]

\* ErrorHandler.Status, and the two ways an exception leaves try_run
Statuses == {"SUCCESS", "SKIPPED", "FAILED"}
Outcomes == Statuses \cup {"KeyboardInterrupt", "Exception"}

NoChangesLine == [text |-> "# No changes required.", phase |-> "none", idx |-> 0]
DescriptionLine(k) == [text |-> "# description", phase |-> "domain", idx |-> k]
InterruptLine == [text |-> "System Configuration Update interrupted by user.",
                  phase |-> "none", idx |-> 0]
ErrorLine == [text |-> "An unexpected error occurred during the configuration update:",
              phase |-> "none", idx |-> 0]

\* the after loop written before the domain loop
PhaseOrder_AfterFirst == <<"before", "after", "domain">>

\* The three for loops of run_actions in the order they are written.
PhaseOrder == <<"before", "domain", "after">>

PhaseNumber(phase) == CHOOSE n \in 1..Len(PhaseOrder) : PhaseOrder[n] = phase

\* The position reached when the n-th loop asks for its k-th item: that item,
\* else the first item of the next loop that has one, else the return after
\* the try statement. lens: the length of each loop's list, by phase.
RECURSIVE PosFrom(_, _, _)
PosFrom(n, k, lens) ==
    IF n > Len(PhaseOrder) THEN <<"return", 0>>
    ELSE IF k <= lens[PhaseOrder[n]] THEN <<PhaseOrder[n], k>>
    ELSE PosFrom(n + 1, 1, lens)

PhaseLens(nb, nd, na) == [phase \in {"before", "domain", "after"} |->
                            CASE phase = "before" -> nb
                              [] phase = "domain" -> nd
                              [] phase = "after" -> na]

NextPos == PosFrom(PhaseNumber(pc), idx + 1,
                   PhaseLens(Len(before_entries), Len(actions), Len(after_entries)))

\* match status with FAILED falling through to the update like SUCCESS
match_status_FailedPasses(status) ==
    CASE status = "SUCCESS" -> "pass"
      [] status = "FAILED" -> "pass"
      [] status = "SKIPPED" -> "continue"

\* match status with SKIPPED falling through to the update like SUCCESS
match_status_SkippedPasses(status) ==
    CASE status = "SUCCESS" -> "pass"
      [] status = "FAILED" -> "return"
      [] status = "SKIPPED" -> "pass"

\* match status: SUCCESS falls through to the update, FAILED returns,
\* SKIPPED continues with the next item.
match_status(status) ==
    CASE status = "SUCCESS" -> "pass"
      [] status = "FAILED" -> "return"
      [] status = "SKIPPED" -> "continue"

\* run_actions without its `except KeyboardInterrupt` clause
caught_NoInterrupt(exception) == exception = "Exception"

\* run_actions without its `except Exception` clause
caught_NoException(exception) == exception = "KeyboardInterrupt"

\* the except clauses of run_actions: both exceptions are caught
caught(exception) == exception \in {"KeyboardInterrupt", "Exception"}

\* the line the matching except clause prints
except_line(exception) ==
    IF exception = "KeyboardInterrupt" THEN InterruptLine ELSE ErrorLine

\* run_actions up to the try statement: the diffs, the plan, has_changes and
\* the early return, else the interpolator seeded from old_config.
RunActions ==
    /\ pc = "start"
    /\ LET diff_before_actions == create_from_iterables(old_config.before_actions,
                                                        new_config.before_actions)
           diff_after_actions == create_from_iterables(old_config.after_actions,
                                                       new_config.after_actions)
           domain_actions == get_domain_actions(old_config, new_config)
           first == PosFrom(1, 1,
                            PhaseLens(Len(get_entries(diff_before_actions, NoneScript)),
                                      Len(domain_actions),
                                      Len(get_entries(diff_after_actions, NoneScript))))
       IN  IF get_domain_actions_raises(old_config, new_config)
           THEN /\ result' = [status |-> "raised", config |-> EmptyConfig]
                /\ pc' = "done"
                /\ UNCHANGED <<idx, actions, before_entries, after_entries, interp,
                               stdout>>
           ELSE IF ~has_changes(old_config, new_config)
           THEN /\ stdout' = Append(stdout, NoChangesLine)
                /\ result' = [status |-> "returned", config |-> new_config]
                /\ pc' = "done"
                /\ UNCHANGED <<idx, actions, before_entries, after_entries, interp>>
           ELSE /\ interp' = create_from_system_config(old_config)
                /\ before_entries' = get_entries(diff_before_actions, NoneScript)
                /\ actions' = domain_actions
                /\ after_entries' = get_entries(diff_after_actions, NoneScript)
                /\ pc' = first[1]
                /\ idx' = first[2]
                /\ UNCHANGED <<stdout, result>>
    /\ UNCHANGED <<old_config, new_config, log, committed>>
    /\ UNCHANGED io_vars

\* An exception reaches the try statement of run_actions: a caught one
\* prints its line and falls to the return after the try statement.
Except(exception, ci, printed) ==
    /\ interp' = ci
    /\ pc' = "done"
    /\ IF caught(exception)
       THEN /\ stdout' = Append(printed, except_line(exception))
            /\ result' = Returned(ci)
       ELSE /\ stdout' = printed
            /\ result' = [status |-> "raised", config |-> EmptyConfig]
    /\ UNCHANGED <<idx, committed>>

\* One iteration of a loop of run_actions. runs: the step has something to
\* run through the error handler; prints: its description is printed first;
\* u: what the matching update_* call gives if the step gets that far;
\* outcome: what try_run gave (a Status or an exception), NOT_RUN when the
\* step has nothing to run.
StepWith(outcome, runs, prints, u) ==
        /\ log' = IF runs
                  THEN Append(log, [phase |-> pc, idx |-> idx, outcome |-> outcome])
                  ELSE log
        /\ LET printed == IF prints THEN Append(stdout, DescriptionLine(idx)) ELSE stdout
               flow == IF outcome = "NOT_RUN" THEN "pass"
                       ELSE IF outcome \in Statuses THEN match_status(outcome)
                       ELSE "raise"
           IN  CASE flow = "raise" -> Except(outcome, interp, printed)
                 [] flow = "return" ->
                        /\ result' = Returned(interp)
                        /\ pc' = "done"
                        /\ stdout' = printed
                        /\ UNCHANGED <<idx, interp, committed>>
                 [] flow = "continue" ->
                        /\ pc' = NextPos[1]
                        /\ idx' = NextPos[2]
                        /\ stdout' = printed
                        /\ UNCHANGED <<interp, committed, result>>
                 [] flow = "pass" /\ u.raised ->
                        \* AssertionError of update_*
                        Except("Exception", u.ci, printed)
                 [] flow = "pass" /\ ~u.raised ->
                        /\ interp' = u.ci
                        /\ committed' = Append(committed, <<pc, idx>>)
                        /\ pc' = NextPos[1]
                        /\ idx' = NextPos[2]
                        /\ stdout' = printed
                        /\ UNCHANGED result
        /\ UNCHANGED <<old_config, new_config, actions, before_entries, after_entries>>

\* One iteration with any outcome of try_run
Step(runs, prints, u) ==
    /\ \E outcome \in IF runs THEN Outcomes ELSE {"NOT_RUN"} :
           StepWith(outcome, runs, prints, u)
    /\ UNCHANGED io_vars

\* the before loop without the `if action_entry.new_item is not None` test
BeforeStep_RunsRemoved ==
    /\ pc = "before"
    /\ LET action_entry == before_entries[idx]
       IN  Step(TRUE, FALSE,
                update_before_action(interp, action_entry.old_item, action_entry.new_item))

\* for action_entry in diff_before_actions.get_entries()
BeforeStep ==
    /\ pc = "before"
    /\ LET action_entry == before_entries[idx]
       IN  Step(action_entry.new_item # NoneScript, FALSE,
                update_before_action(interp, action_entry.old_item, action_entry.new_item))

\* the domain loop without the isinstance(action, NoDomainAction) test
DomainStep_RunsNoOp ==
    /\ pc = "domain"
    /\ LET action == actions[idx]
       IN  Step(TRUE, TRUE,
                update_config_entry(interp, action.old_entry, action.new_entry))

\* for action in actions
DomainStep ==
    /\ pc = "domain"
    /\ LET action == actions[idx]
       IN  Step(action.kind # "NoOp", action.kind # "NoOp",
                update_config_entry(interp, action.old_entry, action.new_entry))

\* the after loop running only the scripts that old_config does not have
AfterStep_SkipsCommon ==
    /\ pc = "after"
    /\ LET action_entry == after_entries[idx]
       IN  Step(action_entry.new_item # NoneScript /\ action_entry.old_item = NoneScript,
                FALSE,
                update_after_action(interp, action_entry.old_item, action_entry.new_item))

\* for action_entry in diff_after_actions.get_entries()
AfterStep ==
    /\ pc = "after"
    /\ LET action_entry == after_entries[idx]
       IN  Step(action_entry.new_item # NoneScript, FALSE,
                update_after_action(interp, action_entry.old_item, action_entry.new_item))

\* the return after the try statement, reached when the loops ran out
Return ==
    /\ pc = "return"
    /\ result' = Returned(interp)
    /\ pc' = "done"
    /\ UNCHANGED <<old_config, new_config, idx, actions, before_entries, after_entries,
                   interp, log, stdout, committed>>
    /\ UNCHANGED io_vars

\* The documents handed to SystemManager: any two parsed documents (the
\* parser rejects duplicate EntryIds, it does not reject repeated scripts).
Init ==
    /\ \E oe \in EntryLists :
       \E ne \in {l \in EntryLists : Len(oe) + Len(l) <= MaxItems} :
       \E ob \in {l \in ScriptLists : Len(oe) + Len(ne) + Len(l) <= MaxItems} :
       \E nb \in {l \in ScriptLists : Len(oe) + Len(ne) + Len(ob) + Len(l) <= MaxItems} :
       \E oa \in {l \in ScriptLists :
                    Len(oe) + Len(ne) + Len(ob) + Len(nb) + Len(l) <= MaxItems} :
       \E na \in {l \in ScriptLists :
                    Len(oe) + Len(ne) + Len(ob) + Len(nb) + Len(oa) + Len(l) <= MaxItems} :
            /\ old_config = SystemConfig(ob, oa, oe, NoDomains)
            /\ new_config = SystemConfig(nb, na, ne, NoDomains)
    /\ pc = "start"
    /\ idx = 0
    /\ actions = <<>>
    /\ before_entries = <<>>
    /\ after_entries = <<>>
    /\ interp = create_from_system_config(EmptyConfig)
    /\ result = NoResult
    /\ log = <<>>
    /\ stdout = <<>>
    /\ committed = <<>>
    /\ documents = NoDocuments
    /\ written = NoDocument
    /\ writes = 0
    /\ transitioner = IdleTransitioner
    /\ call = NoCall
    /\ handler = IdleHandler

Next == RunActions \/ BeforeStep \/ DomainStep \/ AfterStep \/ Return

Spec == Init /\ [][Next]_vars

\* ------------------------------------------- run_actions on short documents
MaxShortItems == 3

\* two parsed documents with at most MaxShortItems scripts and entries
\* between them
InitShort ==
    /\ \E oe \in EntryLists :
       \E ne \in {l \in EntryLists : Len(oe) + Len(l) <= MaxShortItems} :
       \E ob \in {l \in ScriptLists : Len(oe) + Len(ne) + Len(l) <= MaxShortItems} :
       \E nb \in {l \in ScriptLists :
                    Len(oe) + Len(ne) + Len(ob) + Len(l) <= MaxShortItems} :
       \E oa \in {l \in ScriptLists :
                    Len(oe) + Len(ne) + Len(ob) + Len(nb) + Len(l) <= MaxShortItems} :
       \E na \in {l \in ScriptLists :
                    Len(oe) + Len(ne) + Len(ob) + Len(nb) + Len(oa) + Len(l)
                        <= MaxShortItems} :
            /\ old_config = SystemConfig(ob, oa, oe, NoDomains)
            /\ new_config = SystemConfig(nb, na, ne, NoDomains)
    /\ pc = "start"
    /\ idx = 0
    /\ actions = <<>>
    /\ before_entries = <<>>
    /\ after_entries = <<>>
    /\ interp = create_from_system_config(EmptyConfig)
    /\ result = NoResult
    /\ log = <<>>
    /\ stdout = <<>>
    /\ committed = <<>>
    /\ documents = NoDocuments
    /\ written = NoDocument
    /\ writes = 0
    /\ transitioner = IdleTransitioner
    /\ call = NoCall
    /\ handler = IdleHandler

SpecShort == InitShort /\ [][Next]_vars

\* ------------------------------------------------- plan specification
\* get_domain_actions on its own, for any two entry lists.
InitPlan ==
    /\ \E oe \in EntryLists, ne \in EntryLists :
            /\ old_config = SystemConfig(<<>>, <<>>, oe, NoDomains)
            /\ new_config = SystemConfig(<<>>, <<>>, ne, NoDomains)
    /\ pc = "plan"
    /\ idx = 0
    /\ actions = <<>>
    /\ before_entries = <<>>
    /\ after_entries = <<>>
    /\ interp = create_from_system_config(EmptyConfig)
    /\ result = NoResult
    /\ log = <<>>
    /\ stdout = <<>>
    /\ committed = <<>>
    /\ documents = NoDocuments
    /\ written = NoDocument
    /\ writes = 0
    /\ transitioner = IdleTransitioner
    /\ call = NoCall
    /\ handler = IdleHandler

GetDomainActions ==
    /\ pc = "plan"
    /\ actions' = get_domain_actions(old_config, new_config)
    /\ pc' = "planned"
    /\ UNCHANGED <<old_config, new_config, idx, before_entries, after_entries,
                   interp, result, log, stdout, committed>>
    /\ UNCHANGED io_vars

NextPlan == GetDomainActions

SpecPlan == InitPlan /\ [][NextPlan]_vars


\* ------------------------------------------------ apply specification
\* The apply command: both documents are parsed, run_actions runs the plan
\* of their entries, and the config it returns is rendered and written back.
DocEntryLists(n) == SeqsUpTo(DocEntries, n)

InitApply ==
    /\ \E od \in DomainSections, nd \in DomainSections :
       \E oe \in DocEntryLists(MaxDocEntries) :
       \E ne \in DocEntryLists(MaxDocEntries - Len(oe)) :
       \E oc \in {c \in BOOLEAN : c \/ oe = <<>>} :
       \E nc \in {c \in BOOLEAN : c \/ ne = <<>>} :
            documents = [old |-> [Document(od, <<>>, <<>>, oe) EXCEPT !.has_config = oc],
                         new |-> [Document(nd, <<>>, <<>>, ne) EXCEPT !.has_config = nc]]
    /\ pc = "load"
    /\ old_config = EmptyConfig
    /\ new_config = EmptyConfig
    /\ idx = 0
    /\ actions = <<>>
    /\ before_entries = <<>>
    /\ after_entries = <<>>
    /\ interp = create_from_system_config(EmptyConfig)
    /\ result = NoResult
    /\ log = <<>>
    /\ stdout = <<>>
    /\ committed = <<>>
    /\ written = NoDocument
    /\ writes = 0
    /\ transitioner = IdleTransitioner
    /\ call = NoCall
    /\ handler = IdleHandler

\* get_system_manager: load_config_from_file for the new and the old
\* document; an exception of the parser leaves the command
GetSystemManager ==
    /\ pc = "load"
    /\ LET new == parse_data(documents.new)
           old == parse_data(documents.old)
       IN  IF new.status = "raised" \/ old.status = "raised"
           THEN /\ pc' = "done"
                /\ result' = [status |-> "raised", config |-> EmptyConfig]
                /\ UNCHANGED <<old_config, new_config>>
           ELSE /\ pc' = "start"
                /\ old_config' = old.config
                /\ new_config' = new.config
                /\ UNCHANGED result
    /\ UNCHANGED <<idx, actions, before_entries, after_entries, interp, log, stdout,
                   committed, documents, written, handler, writes>>
    /\ UNCHANGED unit_vars

WriteErrorLine == [text |-> "The changes were successfully applied to the system, but an error occurred while writing the updated current configuration file:",
                   phase |-> "none", idx |-> 0]

\* a write wherever the run is, as if the file were updated incrementally
WriteCurrent_Incremental ==
    /\ pc \in {"domain", "return", "done"}
    /\ writes' = writes + 1
    /\ written' = render_config(get_system_config(interp))
    /\ pc' = IF pc = "done" THEN "written" ELSE pc
    /\ UNCHANGED <<old_config, new_config, idx, actions, before_entries, after_entries,
                   interp, result, log, stdout, committed, documents, handler>>
    /\ UNCHANGED unit_vars

\* ApplyCommand.run after run_actions returned: render the current config
\* and call write_file_contents once; when the write raises, the failure is
\* printed and the file keeps what it had
WriteCurrent ==
    /\ pc = "done"
    /\ result.status = "returned"
    /\ writes' = writes + 1
    /\ \E ok \in BOOLEAN :
           IF ok
           THEN /\ written' = render_config(result.config)
                /\ pc' = "written"
                /\ UNCHANGED stdout
           ELSE /\ pc' = "write_failed"
                /\ stdout' = Append(stdout, WriteErrorLine)
                /\ UNCHANGED written
    /\ UNCHANGED <<old_config, new_config, idx, actions, before_entries, after_entries,
                   interp, result, log, committed, documents, handler>>
    /\ UNCHANGED unit_vars

NextApply == GetSystemManager \/ RunActions \/ DomainStep \/ Return \/ WriteCurrent

SpecApply == InitApply /\ [][NextApply]_vars

\* ------------------------------------------------ parser specification
\* One document with scripts, as the parser takes it.
InitParse ==
    /\ \E nd \in DomainSections :
       \E nb \in SeqsUpTo(Scripts, MaxDocScripts) :
       \E na \in SeqsUpTo(Scripts, MaxDocScripts - Len(nb)) :
       \E ne \in DocEntryLists(MaxDocEntries) :
            documents = [old |-> NoDocument, new |-> Document(nd, nb, na, ne)]
    /\ pc = "load"
    /\ old_config = EmptyConfig
    /\ new_config = EmptyConfig
    /\ idx = 0
    /\ actions = <<>>
    /\ before_entries = <<>>
    /\ after_entries = <<>>
    /\ interp = create_from_system_config(EmptyConfig)
    /\ result = NoResult
    /\ log = <<>>
    /\ stdout = <<>>
    /\ committed = <<>>
    /\ written = NoDocument
    /\ writes = 0
    /\ transitioner = IdleTransitioner
    /\ call = NoCall
    /\ handler = IdleHandler

\* SystemConfig.__eq__ of a config and the config a later call of parse_data
\* gave: config_entries are compared as dicts (by EntryId, whatever the
\* order), the scripts as tuples, the user domains as dicts. Domain and
\* UserDomain define no __eq__, and each parse_data call makes its own
\* objects for the keys its document declares, so a user domain equals no
\* domain of the other config, and an entry (whose __eq__ compares the
\* domains too) equals its counterpart only when both belong to the one
\* built-in object of the registry.
SystemConfig_eq(self, other) ==
    LET builtin(config, key) == key \in BuiltinKeys /\ key \notin DOMAIN config.domains
        entry_eq(e, f) == /\ e = f
                          /\ builtin(self, e.domain)
                          /\ builtin(other, f.domain)
    IN  /\ Range(Keys(self)) = Range(Keys(other))
        /\ \A id \in Range(Keys(self)) : entry_eq(EntryOf(self, id), EntryOf(other, id))
        /\ self.before_actions = other.before_actions
        /\ self.after_actions = other.after_actions
        /\ DOMAIN self.domains = {}
        /\ DOMAIN other.domains = {}

\* the parsed config is rendered and the rendered document parsed again
Reparse ==
    /\ pc = "start"
    /\ written' = render_config(new_config)
    /\ call' = [fn |-> "parse_data", args |-> <<render_config(new_config)>>,
                value |-> parse_data(render_config(new_config))]
    /\ pc' = "reparsed"
    /\ UNCHANGED <<old_config, new_config, idx, actions, before_entries, after_entries,
                   interp, result, log, stdout, committed, documents, handler, writes,
                   transitioner>>

NextParse == GetSystemManager \/ Reparse

SpecParse == InitParse /\ [][NextParse]_vars

\* ------------------------------------------------ try_run specification
\* One call of PromptUserErrorHandler.try_run.
InitTryRun ==
    /\ handler = Handler("task", 1, 0, <<>>, "none")
    /\ documents = NoDocuments
    /\ written = NoDocument
    /\ writes = 0
    /\ transitioner = IdleTransitioner
    /\ call = NoCall
    /\ pc = "try_run"
    /\ old_config = EmptyConfig
    /\ new_config = EmptyConfig
    /\ idx = 0
    /\ actions = <<>>
    /\ before_entries = <<>>
    /\ after_entries = <<>>
    /\ interp = create_from_system_config(EmptyConfig)
    /\ result = NoResult
    /\ log = <<>>
    /\ stdout = <<>>
    /\ committed = <<>>

\* the next iteration of `for _ in range(5)`, or `return FAILED` after the
\* loop when the range is exhausted
NextAttempt(h) ==
    IF h.attempt < MaxAttempts
    THEN [h EXCEPT !.at = "task", !.attempt = h.attempt + 1]
    ELSE [h EXCEPT !.at = "done", !.status = "FAILED"]

\* try_run with `except Exception` in place of `except self.exceptions`
TryRunTask_CatchesAll ==
    /\ handler.at = "task"
    /\ \E outcome \in TaskOutcomes :
        LET ran == [handler EXCEPT !.runs = handler.runs + 1,
                                   !.outcomes = Append(handler.outcomes, outcome)]
        IN  handler' = CASE outcome = "returns" ->
                                [ran EXCEPT !.at = "done", !.status = "SUCCESS"]
                         [] outcome = "whitelisted" -> [ran EXCEPT !.at = "prompt"]
                         [] outcome = "other" -> [ran EXCEPT !.at = "prompt"]
    /\ UNCHANGED <<old_config, new_config, pc, idx, actions, before_entries,
                   after_entries, interp, result, log, stdout, committed, documents,
                   written, writes>>
    /\ UNCHANGED unit_vars

\* try: task(); return SUCCESS / except self.exceptions: print the menu
TryRunTask ==
    /\ handler.at = "task"
    /\ \E outcome \in TaskOutcomes :
        LET ran == [handler EXCEPT !.runs = handler.runs + 1,
                                   !.outcomes = Append(handler.outcomes, outcome)]
        IN  handler' = CASE outcome = "returns" ->
                                [ran EXCEPT !.at = "done", !.status = "SUCCESS"]
                         [] outcome = "whitelisted" -> [ran EXCEPT !.at = "prompt"]
                         [] outcome = "other" ->
                                [ran EXCEPT !.at = "done", !.status = "raised"]
    /\ UNCHANGED <<old_config, new_config, pc, idx, actions, before_entries,
                   after_entries, interp, result, log, stdout, committed, documents,
                   written, writes>>
    /\ UNCHANGED unit_vars

\* the prompt where Mark-as-successful runs the task once more
TryRunPrompt_MarkRetries ==
    /\ handler.at = "prompt"
    /\ \E choice \in Choices :
        LET read == [handler EXCEPT !.answers = Append(handler.answers, choice)]
        IN  handler' = CASE choice = "r" -> NextAttempt(read)
                         [] choice = "s" -> [read EXCEPT !.at = "done", !.status = "SKIPPED"]
                         [] choice = "a" -> [read EXCEPT !.at = "done", !.status = "FAILED"]
                         [] choice = "m" -> NextAttempt(read)
                         [] choice = "invalid" -> NextAttempt(read)
                         [] choice = "KeyboardInterrupt" ->
                                [read EXCEPT !.at = "done", !.status = "raised"]
    /\ UNCHANGED <<old_config, new_config, pc, idx, actions, before_entries,
                   after_entries, interp, result, log, stdout, committed, documents,
                   written, writes>>
    /\ UNCHANGED unit_vars

\* the prompt where Retry does not take one of the attempts
TryRunPrompt_RetryFree ==
    /\ handler.at = "prompt"
    /\ \E choice \in Choices :
        LET read == [handler EXCEPT !.answers = Append(handler.answers, choice)]
        IN  handler' = CASE choice = "r" -> [read EXCEPT !.at = "task"]
                         [] choice = "s" -> [read EXCEPT !.at = "done", !.status = "SKIPPED"]
                         [] choice = "a" -> [read EXCEPT !.at = "done", !.status = "FAILED"]
                         [] choice = "m" -> [read EXCEPT !.at = "done", !.status = "SUCCESS"]
                         [] choice = "invalid" -> NextAttempt(read)
                         [] choice = "KeyboardInterrupt" ->
                                [read EXCEPT !.at = "done", !.status = "raised"]
    /\ UNCHANGED <<old_config, new_config, pc, idx, actions, before_entries,
                   after_entries, interp, result, log, stdout, committed, documents,
                   written, writes>>
    /\ UNCHANGED unit_vars

\* choice = input(...); match choice: Retry continues the loop, Skip, Abort
\* and Mark-as-successful return, any other text prints 'Invalid choice' and
\* falls to the end of the loop body, which is the next iteration too
TryRunPrompt ==
    /\ handler.at = "prompt"
    /\ \E choice \in Choices :
        LET read == [handler EXCEPT !.answers = Append(handler.answers, choice)]
        IN  handler' = CASE choice = "r" -> NextAttempt(read)
                         [] choice = "s" -> [read EXCEPT !.at = "done", !.status = "SKIPPED"]
                         [] choice = "a" -> [read EXCEPT !.at = "done", !.status = "FAILED"]
                         [] choice = "m" -> [read EXCEPT !.at = "done", !.status = "SUCCESS"]
                         [] choice = "invalid" -> NextAttempt(read)
                         [] choice = "KeyboardInterrupt" ->
                                [read EXCEPT !.at = "done", !.status = "raised"]
    /\ UNCHANGED <<old_config, new_config, pc, idx, actions, before_entries,
                   after_entries, interp, result, log, stdout, committed, documents,
                   written, writes>>
    /\ UNCHANGED unit_vars

NextTryRun == TryRunTask \/ TryRunPrompt

SpecTryRun == InitTryRun /\ [][NextTryRun]_vars

\* ------------------------------------- run_actions with its error handler
\* The loops of run_actions with each call of try_run played out: the task
\* runs, the user is asked, and the Status try_run gives decides the step.
\* most steps of a run: EntryIds of the two configs and new scripts together
MaxHandledItems == 1

\* the EntryIds two lists of entries hold together
IdsOf(old_entries, new_entries) ==
    {get_id(old_entries[k]) : k \in 1..Len(old_entries)}
    \cup {get_id(new_entries[k]) : k \in 1..Len(new_entries)}

InitHandled ==
    /\ \E oe \in {l \in EntryLists : Len(l) <= MaxHandledItems} :
       \E ne \in {l \in EntryLists : Cardinality(IdsOf(oe, l)) <= MaxHandledItems} :
       \E nb \in {l \in ScriptLists :
                    Cardinality(IdsOf(oe, ne)) + Len(l) <= MaxHandledItems} :
       \E na \in {l \in ScriptLists :
                    Cardinality(IdsOf(oe, ne)) + Len(nb) + Len(l) <= MaxHandledItems} :
            /\ old_config = SystemConfig(<<>>, <<>>, oe, NoDomains)
            /\ new_config = SystemConfig(nb, na, ne, NoDomains)
    /\ pc = "start"
    /\ idx = 0
    /\ actions = <<>>
    /\ before_entries = <<>>
    /\ after_entries = <<>>
    /\ interp = create_from_system_config(EmptyConfig)
    /\ result = NoResult
    /\ log = <<>>
    /\ stdout = <<>>
    /\ committed = <<>>
    /\ documents = NoDocuments
    /\ written = NoDocument
    /\ writes = 0
    /\ transitioner = IdleTransitioner
    /\ call = NoCall
    /\ handler = IdleHandler

\* the step of the current loop has something to run through try_run
StepRuns ==
    CASE pc = "before" -> before_entries[idx].new_item # NoneScript
      [] pc = "domain" -> actions[idx].kind # "NoOp"
      [] pc = "after" -> after_entries[idx].new_item # NoneScript
      [] OTHER -> FALSE

\* the update_* call of the current step
StepUpdate ==
    CASE pc = "before" -> update_before_action(interp, before_entries[idx].old_item,
                                               before_entries[idx].new_item)
      [] pc = "domain" -> update_config_entry(interp, actions[idx].old_entry,
                                              actions[idx].new_entry)
      [] pc = "after" -> update_after_action(interp, after_entries[idx].old_item,
                                             after_entries[idx].new_item)

\* self.error_handler.try_run(lambda: ...) is entered
BeginTryRun ==
    /\ pc \in {"before", "domain", "after"}
    /\ StepRuns
    /\ handler.at = "idle"
    /\ handler' = Handler("task", 1, 0, <<>>, "none")
    /\ UNCHANGED <<old_config, new_config, pc, idx, actions, before_entries,
                   after_entries, interp, result, log, stdout, committed, documents,
                   written, writes>>
    /\ UNCHANGED unit_vars

\* what reaches run_actions from a finished try_run: the Status, or the
\* exception that left it (the task's, or the interrupt at the prompt)
HandlerOutcome ==
    IF handler.status # "raised" THEN handler.status
    ELSE IF handler.outcomes[Len(handler.outcomes)] = "other" THEN "Exception"
    ELSE "KeyboardInterrupt"

\* the rest of the loop body: `match status` and the update_* call, for a
\* step whose try_run has finished or that has nothing to run
HandledStep ==
    /\ pc \in {"before", "domain", "after"}
    /\ IF StepRuns
       THEN /\ handler.at = "done"
            /\ StepWith(HandlerOutcome, TRUE, pc = "domain", StepUpdate)
       ELSE /\ handler.at = "idle"
            /\ StepWith("NOT_RUN", FALSE, FALSE, StepUpdate)
    /\ handler' = [handler EXCEPT !.at = "idle"]
    /\ UNCHANGED <<documents, written, writes>>
    /\ UNCHANGED unit_vars

NextHandled ==
    RunActions \/ BeginTryRun \/ TryRunTask \/ TryRunPrompt \/ HandledStep \/ Return

SpecHandled == InitHandled /\ [][NextHandled]_vars

\* ------------------------------------------ a SequenceTransitioner in use
MaxOldItems == 2
MaxUpdates == 3

\* lists of distinct items, as the class requires of its lists
DistinctItemLists(n) ==
    {s \in SeqsUpTo(Items, n) : \A j, k \in 1..Len(s) : s[j] = s[k] => j = k}

\* a transitioner just created from a list of old items
InitTransition ==
    /\ \E old_items \in DistinctItemLists(MaxOldItems) :
           transitioner = create_from_old_items(old_items)
    /\ call = NoCall
    /\ handler = IdleHandler
    /\ documents = NoDocuments
    /\ written = NoDocument
    /\ writes = 0
    /\ pc = "transition"
    /\ old_config = EmptyConfig
    /\ new_config = EmptyConfig
    /\ idx = 0
    /\ actions = <<>>
    /\ before_entries = <<>>
    /\ after_entries = <<>>
    /\ interp = create_from_system_config(EmptyConfig)
    /\ result = NoResult
    /\ log = <<>>
    /\ stdout = <<>>
    /\ committed = <<>>

\* one call of update_item, with any arguments; the object keeps what the
\* call had done to its lists when an assertion fails
UpdateItem ==
    /\ pc = "transition"
    /\ transitioner.calls < MaxUpdates
    /\ \E old_item \in Items \cup {NoneItem}, new_item \in Items \cup {NoneItem} :
           LET r == update_item(transitioner, old_item, new_item)
           IN  transitioner' =
                   [transitioner EXCEPT
                       !.old_items = r.old_items,
                       !.new_items = r.new_items,
                       !.last = [old_item |-> old_item, new_item |-> new_item,
                                 raised |-> r.raised],
                       !.calls = transitioner.calls + 1,
                       !.legal = transitioner.legal /\ ~r.raised]
    /\ UNCHANGED <<old_config, new_config, pc, idx, actions, before_entries,
                   after_entries, interp, result, log, stdout, committed, documents,
                   written, handler, writes, call>>

NextTransition == UpdateItem

SpecTransition == InitTransition /\ [][NextTransition]_vars

\* ------------------------------------------------------- a Diff in use
MaxDiffItems == 3

\* two sequences of distinct items about to be compared
InitDiff ==
    /\ \E old_items \in DistinctItemLists(MaxDiffItems) :
       \E new_items \in DistinctItemLists(MaxDiffItems) :
            call = [fn |-> "args", args |-> <<old_items, new_items>>, value |-> <<>>]
    /\ transitioner = IdleTransitioner
    /\ handler = IdleHandler
    /\ documents = NoDocuments
    /\ written = NoDocument
    /\ writes = 0
    /\ pc = "diff"
    /\ old_config = EmptyConfig
    /\ new_config = EmptyConfig
    /\ idx = 0
    /\ actions = <<>>
    /\ before_entries = <<>>
    /\ after_entries = <<>>
    /\ interp = create_from_system_config(EmptyConfig)
    /\ result = NoResult
    /\ log = <<>>
    /\ stdout = <<>>
    /\ committed = <<>>

\* diff = Diff.create_from_iterables(old_items, new_items)
CreateFromIterables ==
    /\ pc = "diff"
    /\ call.fn = "args"
    /\ call' = [call EXCEPT !.fn = "create_from_iterables",
                            !.value = create_from_iterables(call.args[1], call.args[2])]
    /\ UNCHANGED <<old_config, new_config, pc, idx, actions, before_entries,
                   after_entries, interp, result, log, stdout, committed, documents,
                   written, handler, writes, transitioner>>

\* diff.get_entries(), as the loops of run_actions over before and after
\* scripts call it
GetEntries ==
    /\ pc = "diff"
    /\ call.fn = "create_from_iterables"
    /\ call' = [call EXCEPT !.fn = "get_entries",
                            !.value = get_entries(call.value, NoneItem)]
    /\ UNCHANGED <<old_config, new_config, pc, idx, actions, before_entries,
                   after_entries, interp, result, log, stdout, committed, documents,
                   written, handler, writes, transitioner>>

NextDiff == CreateFromIterables \/ GetEntries

SpecDiff == InitDiff /\ [][NextDiff]_vars

\* ------------------------------------------------ a domain's get_action
\* entries of the two built-in domains, the list domain's with several values
CallEntries == [domain : BuiltinKeys, path : {<<"k1">>, <<"k2">>}, value : {"a", "b"}]

\* a domain and the pair of entries (each possibly None) it is asked about
InitGetAction ==
    /\ \E domain \in BuiltinKeys :
       \E old_entry \in CallEntries \cup {NoneEntry} :
       \E new_entry \in CallEntries \cup {NoneEntry} :
            call = [fn |-> "args", args |-> <<domain, old_entry, new_entry>>,
                    value |-> <<>>]
    /\ transitioner = IdleTransitioner
    /\ handler = IdleHandler
    /\ documents = NoDocuments
    /\ written = NoDocument
    /\ writes = 0
    /\ pc = "get_action"
    /\ old_config = EmptyConfig
    /\ new_config = EmptyConfig
    /\ idx = 0
    /\ actions = <<>>
    /\ before_entries = <<>>
    /\ after_entries = <<>>
    /\ interp = create_from_system_config(EmptyConfig)
    /\ result = NoResult
    /\ log = <<>>
    /\ stdout = <<>>
    /\ committed = <<>>

\* domain.get_action(old_entry, new_entry)
GetAction ==
    /\ pc = "get_action"
    /\ call.fn = "args"
    /\ call' = [call EXCEPT !.fn = "get_action",
                            !.value = get_action(call.args[1], call.args[2], call.args[3])]
    /\ UNCHANGED <<old_config, new_config, pc, idx, actions, before_entries,
                   after_entries, interp, result, log, stdout, committed, documents,
                   written, handler, writes, transitioner>>

NextGetAction == GetAction

SpecGetAction == InitGetAction /\ [][NextGetAction]_vars

\* ------------------------------------------------------ ShellScriptTemplate
\* A text is a sequence of tokens: the token "$key" (the characters every
\* path variable starts with), one token per digit, one token for each of
\* "$value", "$new_value" and "$old_value" (none of which contains another
\* variable name), and plain words.
MaxTemplateLen == 3
MaxPath == 10

DigitTokens == <<"1", "2", "3", "4", "5", "6", "7", "8", "9">>

\* f'{n}' for n >= 1
RECURSIVE Decimal(_)
Decimal(n) ==
    IF n < 10 THEN <<DigitTokens[n]>>
    ELSE Decimal(n \div 10) \o (IF n % 10 = 0 THEN <<"0">> ELSE <<DigitTokens[n % 10]>>)

\* the name matches the text at position k
MatchesAt(text, k, name) ==
    /\ k + Len(name) - 1 <= Len(text)
    /\ \A j \in 1..Len(name) : text[k + j - 1] = name[j]

\* str.replace(name, value) from position k on: the occurrences of name, found
\* left to right and not overlapping, give way to value
RECURSIVE ReplaceFrom(_, _, _, _)
ReplaceFrom(text, k, name, value) ==
    IF k > Len(text) THEN <<>>
    ELSE IF MatchesAt(text, k, name)
    THEN value \o ReplaceFrom(text, k + Len(name), name, value)
    ELSE <<text[k]>> \o ReplaceFrom(text, k + 1, name, value)

\* str.replace(name, value)
Replace(text, name, value) == ReplaceFrom(text, 1, name, value)

\* ShellScriptTemplate.get_interpolated_script: one str.replace over the whole
\* script so far for each variable, in the order of the dict
RECURSIVE get_interpolated_script(_, _)
get_interpolated_script(script, variables) ==
    IF variables = <<>> THEN script
    ELSE get_interpolated_script(
             Replace(script, Head(variables).name, Head(variables).value),
             Tail(variables))

\* ShellScriptTemplate.get_path_variables: $key1 .. $keyN in that order, then
\* $key when the path is not empty (a dict keeps the order of insertion)
get_path_variables(path) ==
    [k \in 1..Len(path) |-> [name |-> <<"$key">> \o Decimal(k), value |-> path[k]]]
    \o (IF Len(path) > 0 THEN <<[name |-> <<"$key">>, value |-> path[1]]>> ELSE <<>>)

\* the variables dict built by ShellAddAction.run, ShellUpdateAction.run and
\* ShellRemoveAction.run
run_variables(kind, path, old_value, new_value) ==
    get_path_variables(path) \o
    (CASE kind = "Add" ->
              <<[name |-> <<"$value">>, value |-> new_value],
                [name |-> <<"$new_value">>, value |-> new_value]>>
       [] kind = "Update" ->
              <<[name |-> <<"$value">>, value |-> new_value],
                [name |-> <<"$new_value">>, value |-> new_value],
                [name |-> <<"$old_value">>, value |-> old_value]>>
       [] kind = "Remove" ->
              <<[name |-> <<"$value">>, value |-> old_value],
                [name |-> <<"$old_value">>, value |-> old_value]>>)

\* the tokens a template is written with
TemplateTokens == {"$key", "1", "0", "$value", "$old_value"}

\* a path of distinct plain segments
LongPath == [k \in 1..MaxPath |-> <<"s">> \o Decimal(k) \o <<"x">>]

\* the paths of an entry: plain segments, or a segment that reads like a
\* variable name
TemplatePaths ==
    {SubSeq(LongPath, 1, n) : n \in 0..MaxPath}
    \cup {<< <<"$value">> >>, << <<"a">>, <<"$key">> >>}

\* the values of an entry, plain or reading like a variable name
TemplateValues == {<<"a">>, <<"$old_value">>, <<"$key">>}

\* an action of a shell domain about to run: its script template and the
\* entries it carries
InitTemplate ==
    /\ \E script \in SeqsUpTo(TemplateTokens, MaxTemplateLen) :
       \E kind \in {"Add", "Update", "Remove"} :
       \E path \in TemplatePaths :
       \E value \in TemplateValues :
            call = [fn |-> "args",
                    args |-> [script |-> script, kind |-> kind, path |-> path,
                              old_value |-> IF kind = "Remove" THEN value ELSE <<"b">>,
                              new_value |-> IF kind = "Remove" THEN <<"None">> ELSE value],
                    value |-> <<>>]
    /\ transitioner = IdleTransitioner
    /\ handler = IdleHandler
    /\ documents = NoDocuments
    /\ written = NoDocument
    /\ writes = 0
    /\ pc = "template"
    /\ old_config = EmptyConfig
    /\ new_config = EmptyConfig
    /\ idx = 0
    /\ actions = <<>>
    /\ before_entries = <<>>
    /\ after_entries = <<>>
    /\ interp = create_from_system_config(EmptyConfig)
    /\ result = NoResult
    /\ log = <<>>
    /\ stdout = <<>>
    /\ committed = <<>>

\* action.run(executor): the script handed to executor.shell
RunShellAction ==
    /\ pc = "template"
    /\ call.fn = "args"
    /\ call' = [call EXCEPT
                   !.fn = "run",
                   !.value = get_interpolated_script(
                                 call.args.script,
                                 run_variables(call.args.kind, call.args.path,
                                               call.args.old_value, call.args.new_value))]
    /\ UNCHANGED <<old_config, new_config, pc, idx, actions, before_entries,
                   after_entries, interp, result, log, stdout, committed, documents,
                   written, handler, writes, transitioner>>

NextTemplate == RunShellAction

SpecTemplate == InitTemplate /\ [][NextTemplate]_vars

\* ------------------------------------------------------ get_flattened_dict
\* most levels of mappings in a document's subtree, and the largest depth
\* asked for
MaxTreeDepth == 2
MaxFlattenDepth == 3

TreeKeys == {"a", "b"}

\* YamlSerializable values: None, a value that is neither a mapping nor None
\* (a scalar or a list), or a dict from keys to values
NullTree == [type |-> "null", items |-> [k \in {} |-> "none"]]
LeafTree == [type |-> "leaf", items |-> [k \in {} |-> "none"]]

RECURSIVE Trees(_)
Trees(n) ==
    IF n = 0 THEN {NullTree, LeafTree}
    ELSE {NullTree, LeafTree}
         \cup UNION {{[type |-> "map", items |-> f] : f \in [K -> Trees(n - 1)]} :
                        K \in SUBSET TreeKeys}

\* the flattened map of no result: the call raised
NoFlattenedMap == [p \in {} |-> NullTree]

\* the loop of get_flattened_dict without its assertion
RECURSIVE flatten_levels_NoAssert(_, _)
flatten_levels_NoAssert(flattaned_map, n) ==
    IF n = 0 THEN [raised |-> FALSE, map |-> flattaned_map]
    ELSE LET next_keys == UNION {{keys \o <<key>> : key \in DOMAIN flattaned_map[keys].items} :
                                    keys \in {q \in DOMAIN flattaned_map :
                                                flattaned_map[q].type = "map"}}
         IN  flatten_levels_NoAssert(
                 [q \in next_keys |->
                     flattaned_map[SubSeq(q, 1, Len(q) - 1)].items[q[Len(q)]]],
                 n - 1)

\* get_flattened_dict that drops what it cannot flatten
get_flattened_dict_NoAssert(data, path_depth) ==
    flatten_levels_NoAssert([p \in {<<>>} |-> data], path_depth)

\* `for _ in range(path_depth)` of get_flattened_dict with n iterations to
\* go: the assertion on the values of this level, then one level flattened
\* (only the dicts contribute, a None contributes nothing)
RECURSIVE flatten_levels(_, _)
flatten_levels(flattaned_map, n) ==
    IF n = 0 THEN [raised |-> FALSE, map |-> flattaned_map]
    ELSE IF \E keys \in DOMAIN flattaned_map :
                flattaned_map[keys].type \notin {"map", "null"}
    THEN [raised |-> TRUE, map |-> NoFlattenedMap]
    ELSE LET next_keys == UNION {{keys \o <<key>> : key \in DOMAIN flattaned_map[keys].items} :
                                    keys \in {q \in DOMAIN flattaned_map :
                                                flattaned_map[q].type = "map"}}
         IN  flatten_levels(
                 [q \in next_keys |->
                     flattaned_map[SubSeq(q, 1, Len(q) - 1)].items[q[Len(q)]]],
                 n - 1)

\* get_flattened_dict(data, path_depth)
get_flattened_dict(data, path_depth) ==
    flatten_levels([p \in {<<>>} |-> data], path_depth)

\* a subtree of a document and the depth of the domain that reads it
InitFlatten ==
    /\ \E data \in Trees(MaxTreeDepth) :
       \E path_depth \in 0..MaxFlattenDepth :
            call = [fn |-> "args", args |-> [data |-> data, path_depth |-> path_depth],
                    value |-> <<>>]
    /\ transitioner = IdleTransitioner
    /\ handler = IdleHandler
    /\ documents = NoDocuments
    /\ written = NoDocument
    /\ writes = 0
    /\ pc = "flatten"
    /\ old_config = EmptyConfig
    /\ new_config = EmptyConfig
    /\ idx = 0
    /\ actions = <<>>
    /\ before_entries = <<>>
    /\ after_entries = <<>>
    /\ interp = create_from_system_config(EmptyConfig)
    /\ result = NoResult
    /\ log = <<>>
    /\ stdout = <<>>
    /\ committed = <<>>

\* get_flattened_dict(data, path_depth) is called
GetFlattenedDict ==
    /\ pc = "flatten"
    /\ call.fn = "args"
    /\ call' = [call EXCEPT
                   !.fn = "get_flattened_dict",
                   !.value = get_flattened_dict(call.args.data, call.args.path_depth)]
    /\ UNCHANGED <<old_config, new_config, pc, idx, actions, before_entries,
                   after_entries, interp, result, log, stdout, committed, documents,
                   written, handler, writes, transitioner>>

NextFlatten == GetFlattenedDict

SpecFlatten == InitFlatten /\ [][NextFlatten]_vars

\* ------------------------------- a SystemConfigInterpolator fed by hand
MaxSeedItems == 1
MaxInterpUpdates == 2

\* the interpolator of a config, and one SequenceTransitioner for each of
\* the config's three sequences, before any update
InitInterpolate ==
    /\ \E before_actions \in SeqsUpTo(Scripts, MaxSeedItems) :
       \E after_actions \in SeqsUpTo(Scripts, MaxSeedItems) :
       \E config_entries \in {es \in SeqsUpTo(Entries, MaxSeedItems) : DistinctIds(es)} :
            old_config = SystemConfig(before_actions, after_actions, config_entries,
                                      NoDomains)
    /\ interp = create_from_system_config(old_config)
    /\ transitioner = [before_actions |-> create_from_old_items(old_config.before_actions),
                       config_entries |-> create_from_old_items(old_config.config_entries),
                       after_actions |-> create_from_old_items(old_config.after_actions),
                       calls |-> 0]
    /\ call = NoCall
    /\ handler = IdleHandler
    /\ documents = NoDocuments
    /\ written = NoDocument
    /\ writes = 0
    /\ pc = "interpolate"
    /\ new_config = EmptyConfig
    /\ idx = 0
    /\ actions = <<>>
    /\ before_entries = <<>>
    /\ after_entries = <<>>
    /\ result = NoResult
    /\ log = <<>>
    /\ stdout = <<>>
    /\ committed = <<>>

\* a SequenceTransitioner after update_item, keeping what the call had done
\* to its lists when an assertion fails
Updated(t, old_item, new_item, none) ==
    LET r == update_item_of(t, old_item, new_item, none)
    IN  [t EXCEPT !.old_items = r.old_items, !.new_items = r.new_items]

\* update_before_action with any arguments, and the same update_item call on
\* the transitioner of the before scripts
UpdateBeforeAction ==
    /\ pc = "interpolate"
    /\ transitioner.calls < MaxInterpUpdates
    /\ \E old_action \in Scripts \cup {NoneScript}, new_action \in Scripts \cup {NoneScript} :
           /\ interp' = update_before_action(interp, old_action, new_action).ci
           /\ transitioner' =
                  [transitioner EXCEPT
                      !.before_actions = Updated(@, old_action, new_action, NoneScript),
                      !.calls = @ + 1]
    /\ UNCHANGED <<old_config, new_config, pc, idx, actions, before_entries,
                   after_entries, result, log, stdout, committed, documents,
                   written, handler, writes, call>>

\* update_config_entry with any arguments, and the same update_item call on
\* the transitioner of the entries
UpdateConfigEntry ==
    /\ pc = "interpolate"
    /\ transitioner.calls < MaxInterpUpdates
    /\ \E old_entry \in Entries \cup {NoneEntry}, new_entry \in Entries \cup {NoneEntry} :
           /\ interp' = update_config_entry(interp, old_entry, new_entry).ci
           /\ transitioner' =
                  [transitioner EXCEPT
                      !.config_entries = Updated(@, old_entry, new_entry, NoneEntry),
                      !.calls = @ + 1]
    /\ UNCHANGED <<old_config, new_config, pc, idx, actions, before_entries,
                   after_entries, result, log, stdout, committed, documents,
                   written, handler, writes, call>>

\* update_after_action with any arguments, and the same update_item call on
\* the transitioner of the after scripts
UpdateAfterAction ==
    /\ pc = "interpolate"
    /\ transitioner.calls < MaxInterpUpdates
    /\ \E old_action \in Scripts \cup {NoneScript}, new_action \in Scripts \cup {NoneScript} :
           /\ interp' = update_after_action(interp, old_action, new_action).ci
           /\ transitioner' =
                  [transitioner EXCEPT
                      !.after_actions = Updated(@, old_action, new_action, NoneScript),
                      !.calls = @ + 1]
    /\ UNCHANGED <<old_config, new_config, pc, idx, actions, before_entries,
                   after_entries, result, log, stdout, committed, documents,
                   written, handler, writes, call>>

NextInterpolate == UpdateBeforeAction \/ UpdateConfigEntry \/ UpdateAfterAction

SpecInterpolate == InitInterpolate /\ [][NextInterpolate]_vars

\* =================================================================== claims

\* ids of the entries only the old document has, in the old document's order
OldOnlyIds == SelectSeq(Keys(old_config), LAMBDA id : ~In(id, Keys(new_config)))

RemoveActions == SelectSeq(actions, LAMBDA a : a.kind = "Remove")

\* the plan without its leading removals
AfterRemovals == SubSeq(actions, Len(OldOnlyIds) + 1, Len(actions))

\* C5: in the plan of get_domain_actions every Remove action comes before
\* every Add and every Update action.
C5_RemovalsFirst ==
    pc = "planned" =>
        \A j, k \in 1..Len(actions) :
            (actions[j].kind = "Remove" /\ actions[k].kind \in {"Add", "Update"}) => j < k

C5_Witness ==
    /\ pc = "planned"
    /\ \E j, k, l \in 1..Len(actions) :
        /\ actions[j].kind = "Remove"
        /\ actions[k].kind = "Add"
        /\ actions[l].kind = "Update"

\* C6: the Remove actions are those of exactly the EntryIds that are in
\* old_config and not in new_config, each carrying its old entry, in the
\* reverse of old_config's insertion order.
C6_RemovalsReversed ==
    pc = "planned" =>
        /\ Len(RemoveActions) = Len(OldOnlyIds)
        /\ \A k \in 1..Len(RemoveActions) :
            /\ get_id(RemoveActions[k].old_entry) = OldOnlyIds[Len(OldOnlyIds) + 1 - k]
            /\ RemoveActions[k].old_entry = EntryOf(old_config, get_id(RemoveActions[k].old_entry))
            /\ RemoveActions[k].new_entry = NoneEntry

C6_Witness ==
    /\ pc = "planned"
    /\ Len(RemoveActions) >= 2
    /\ Len(new_config.config_entries) >= 1
    /\ get_id(RemoveActions[1].old_entry) = OldOnlyIds[Len(OldOnlyIds)]
    /\ get_id(RemoveActions[2].old_entry) = OldOnlyIds[Len(OldOnlyIds) - 1]

\* C7: after the removals the plan holds exactly one action per EntryId of
\* new_config, in new_config's insertion order: Add when the id is new, else
\* Update or NoOp, interleaved as the entries are listed.
C7_NewOrder ==
    pc = "planned" =>
        /\ Len(AfterRemovals) = Len(new_config.config_entries)
        /\ \A k \in 1..Len(AfterRemovals) :
            /\ AfterRemovals[k].new_entry = new_config.config_entries[k]
            /\ AfterRemovals[k].kind \in {"Add", "Update", "NoOp"}
            /\ AfterRemovals[k].kind = "Add" <=>
                    ~In(get_id(new_config.config_entries[k]), Keys(old_config))
            /\ AfterRemovals[k].kind # "Add" =>
                    AfterRemovals[k].old_entry =
                        EntryOf(old_config, get_id(new_config.config_entries[k]))

C7_Witness ==
    /\ pc = "planned"
    /\ Len(AfterRemovals) = 3
    /\ AfterRemovals[1].kind = "Update"
    /\ AfterRemovals[2].kind = "Add"
    /\ AfterRemovals[3].kind = "NoOp"


\* ------------------------------------------------ the run, step by step
\* the plan as (old?, new?) pairs, by phase
DomainPairs == [k \in 1..Len(actions) |->
                    [old_item |-> actions[k].old_entry, new_item |-> actions[k].new_entry]]

\* plan order of the positions: before-scripts, domain actions, after-scripts
PhaseRank(phase) ==
    CASE phase = "before" -> 1
      [] phase = "domain" -> 2
      [] phase = "after" -> 3

PosBefore(p, q) ==
    \/ PhaseRank(p[1]) < PhaseRank(q[1])
    \/ p[1] = q[1] /\ p[2] < q[2]

\* the number of the step at a position, counting the whole plan from 1;
\* one past the end for the return after the loops
PlanLength == Len(before_entries) + Len(actions) + Len(after_entries)

FlatIndex(phase, k) ==
    CASE phase = "before" -> k
      [] phase = "domain" -> Len(before_entries) + k
      [] phase = "after" -> Len(before_entries) + Len(actions) + k
      [] phase = "return" -> PlanLength + 1

\* the committed steps of one phase, as indexes into its list, in commit order
CommittedOf(phase) ==
    LET own == SelectSeq(committed, LAMBDA pos : pos[1] = phase)
    IN  [k \in 1..Len(own) |-> own[k][2]]

RECURSIVE RemoveEach(_, _)
RemoveEach(items, gone) ==
    IF gone = <<>> THEN items
    ELSE RemoveEach(ListRemove(items, Head(gone)), Tail(gone))

\* what the committed steps of one phase make of its old list: the new item
\* of every committed step in commit order, then the old list without the
\* old items of the committed steps
Applied(old_items, pairs, done, none) ==
    LET news == SelectSeq([k \in 1..Len(done) |-> pairs[done[k]].new_item],
                          LAMBDA x : x # none)
        olds == SelectSeq([k \in 1..Len(done) |-> pairs[done[k]].old_item],
                          LAMBDA x : x # none)
    IN  news \o RemoveEach(old_items, olds)

\* run_actions returned a config (it did not raise) and the config is the
\* committed steps in their new form plus everything else in its old form
ReturnedCommitted ==
    /\ result.status = "returned"
    /\ result.config.before_actions =
            Applied(old_config.before_actions, before_entries, CommittedOf("before"),
                    NoneScript)
    /\ result.config.config_entries =
            Applied(old_config.config_entries, DomainPairs, CommittedOf("domain"),
                    NoneEntry)
    /\ result.config.after_actions =
            Applied(old_config.after_actions, after_entries, CommittedOf("after"),
                    NoneScript)

\* every step at or after position p still has its old item in the result
PendingOldKept(p) ==
    /\ \A k \in 1..Len(before_entries) :
            (~PosBefore(<<"before", k>>, p) /\ before_entries[k].old_item # NoneScript)
                => In(before_entries[k].old_item, result.config.before_actions)
    /\ \A k \in 1..Len(actions) :
            (~PosBefore(<<"domain", k>>, p) /\ actions[k].old_entry # NoneEntry)
                => In(actions[k].old_entry, result.config.config_entries)
    /\ \A k \in 1..Len(after_entries) :
            (~PosBefore(<<"after", k>>, p) /\ after_entries[k].old_item # NoneScript)
                => In(after_entries[k].old_item, result.config.after_actions)

\* the run stopped at the step of log entry k, without committing it
StoppedAt(k) ==
    LET p == <<log[k].phase, log[k].idx>>
    IN  /\ k = Len(log)
        /\ pc = "done"
        /\ \A c \in 1..Len(committed) : PosBefore(committed[c], p)
        /\ PendingOldKept(p)

\* C1: when the error handler returns Failed for a step, the loop stops: the
\* step is not committed, no later step is executed or committed, and the
\* returned config holds the new item of every step committed before it plus
\* the old items of this step and of every later step.
C1_FailedStopsLoop ==
    \A k \in 1..Len(log) :
        log[k].outcome = "FAILED" => StoppedAt(k) /\ ReturnedCommitted

\* A committed, B failed, C never reached
C1_Witness ==
    /\ Len(log) = 2
    /\ log[1].outcome = "SUCCESS"
    /\ log[2].outcome = "FAILED"
    /\ log[2].phase = "domain"
    /\ actions[log[2].idx].kind = "Update"
    /\ Len(committed) = 1
    /\ FlatIndex(log[2].phase, log[2].idx) < PlanLength
    /\ result.status = "returned"


\* the step at the current position, as an (old?, new?) pair
CurrentOld ==
    CASE pc = "before" -> before_entries[idx].old_item
      [] pc = "after" -> after_entries[idx].old_item

\* C2: when the error handler returns Skipped for a step the transitioner is
\* not updated (the step's old item stays in the current config, its new
\* item is not added), the run does not end with it and the loop goes on
\* with the next step of the plan.
C2_SkippedContinues ==
    [][(Len(log') = Len(log) + 1 /\ log'[Len(log')].outcome = "SKIPPED") =>
            /\ interp' = interp
            /\ get_system_config(interp') = get_system_config(interp)
            /\ committed' = committed
            /\ result' = NoResult
            /\ pc' # "done"
            /\ FlatIndex(pc', idx') = FlatIndex(pc, idx) + 1
            /\ pc = "domain" =>
                    (actions[idx].old_entry # NoneEntry =>
                        In(actions[idx].old_entry, get_system_config(interp').config_entries))
            /\ pc \in {"before", "after"} =>
                    (CurrentOld # NoneScript =>
                        In(CurrentOld,
                           IF pc = "before"
                           THEN get_system_config(interp').before_actions
                           ELSE get_system_config(interp').after_actions))
      ]_vars

\* an Update was skipped, a later step ran, and the result holds the old entry
C2_Witness ==
    /\ pc = "done"
    /\ Len(log) = 2
    /\ log[1].outcome = "SKIPPED"
    /\ log[1].phase = "domain"
    /\ actions[log[1].idx].kind = "Update"
    /\ log[2].outcome = "SUCCESS"
    /\ result.status = "returned"
    /\ In(actions[log[1].idx].old_entry, result.config.config_entries)
    /\ ~In(actions[log[1].idx].new_entry, result.config.config_entries)

NothingToDo ==
    /\ old_config.before_actions = new_config.before_actions
    /\ old_config.after_actions = new_config.after_actions
    /\ \A k \in 1..Len(new_config.config_entries) :
            In(new_config.config_entries[k], old_config.config_entries)
    /\ \A k \in 1..Len(old_config.config_entries) :
            In(old_config.config_entries[k], new_config.config_entries)

AllSuccess == \A k \in 1..Len(log) : log[k].outcome = "SUCCESS"

\* C4 as claimed: if the plan has a change and every step's outcome is
\* Success, run_actions returns the entries, before_actions and
\* after_actions of new_config, in new_config's order.
C4_AllSuccessGivesNew ==
    (pc = "done" /\ ~NothingToDo /\ AllSuccess) =>
        /\ result.status = "returned"
        /\ result.config.config_entries = new_config.config_entries
        /\ result.config.before_actions = new_config.before_actions
        /\ result.config.after_actions = new_config.after_actions

\* C8: every before-script execution comes before the first domain action's
\* execution, every after-script execution after the last domain action's;
\* no domain action runs once an after-script has started.
C8_PhasesInOrder ==
    \A j, k \in 1..Len(log) :
        j < k => PhaseRank(log[j].phase) <= PhaseRank(log[k].phase)

C8_Witness ==
    /\ Len(log) = 4
    /\ log[1].phase = "before"
    /\ log[2].phase = "domain"
    /\ log[3].phase = "domain"
    /\ log[4].phase = "after"
    /\ log[2].outcome = "SKIPPED"

C10_InterruptReturnsCurrent ==
    \A k \in 1..Len(log) :
        log[k].outcome = "KeyboardInterrupt" =>
            /\ StoppedAt(k)
            /\ ReturnedCommitted
            /\ result.config = get_system_config(interp)
            /\ stdout[Len(stdout)] = InterruptLine

C10_Witness ==
    /\ Len(log) = 3
    /\ log[1].outcome = "SUCCESS"
    /\ log[2].outcome = "SKIPPED"
    /\ log[3].outcome = "KeyboardInterrupt"
    /\ Len(committed) = 1
    /\ result.status = "returned"
    /\ FlatIndex(log[3].phase, log[3].idx) < PlanLength


\* C11: an exception the error handler lets through, raised while a step
\* runs, does not leave run_actions: the run stops at that step without
\* committing it, prints the diagnostic and returns the transitioner's
\* current config, the committed steps in their new form and everything else
\* in its old form.
C11_ExceptionReturnsCurrent ==
    \A k \in 1..Len(log) :
        log[k].outcome = "Exception" =>
            /\ StoppedAt(k)
            /\ ReturnedCommitted
            /\ result.config = get_system_config(interp)
            /\ stdout[Len(stdout)] = ErrorLine

\* one step committed, one skipped, the third raised; a later step is left
C11_Witness ==
    /\ Len(log) = 3
    /\ log[1].outcome = "SUCCESS"
    /\ log[2].outcome = "SKIPPED"
    /\ log[3].outcome = "Exception"
    /\ Len(committed) = 1
    /\ result.status = "returned"
    /\ FlatIndex(log[3].phase, log[3].idx) < PlanLength

\* what the update_* call of the step at the current position gives
CurrentUpdate ==
    CASE pc = "before" -> update_before_action(interp, before_entries[idx].old_item,
                                               before_entries[idx].new_item)
      [] pc = "domain" -> update_config_entry(interp, actions[idx].old_entry,
                                              actions[idx].new_entry)
      [] pc = "after" -> update_after_action(interp, after_entries[idx].old_item,
                                             after_entries[idx].new_item)

\* the step at the current position got as far as its update_* call
ReachesUpdate ==
    /\ pc \in {"before", "domain", "after"}
    /\ \/ log' = log
       \/ Len(log') = Len(log) + 1 /\ log'[Len(log')].outcome = "SUCCESS"

\* C12 as claimed: a commit whose old item is not on the transitioner's old
\* side, or whose new item is already on its new side, is an assertion
\* failure that leaves run_actions: run_actions does not return a config.
C12_AssertionPropagates ==
    [][(ReachesUpdate /\ CurrentUpdate.raised) => result'.status # "returned"]_vars


\* ------------------------------------------------ documents and domains
\* the domain key of every entry of the config is a built-in or one of the
\* config's own user domains
DomainsResolve(config) ==
    \A k \in 1..Len(config.config_entries) :
        config.config_entries[k].domain \in BuiltinKeys \cup DOMAIN config.domains

\* C13 as claimed: in every config run_actions returns, each entry's domain
\* key resolves to a built-in domain or to a definition in that config's
\* user_domains, so the written history document parses on the next run.
C13_DomainsResolve ==
    /\ result.status = "returned" => DomainsResolve(result.config)
    /\ pc = "written" => parse_data(written).status = "parsed"

\* C14 as claimed: whenever an entry of the returned config uses a domain key
\* that new_config defines as a user domain, the returned config's
\* user_domains holds new_config's definition of that key.
C14_NewDomainsPreferred ==
    result.status = "returned" =>
        \A k \in 1..Len(result.config.config_entries) :
            LET key == result.config.config_entries[k].domain
            IN  key \in DOMAIN new_config.domains =>
                    /\ key \in DOMAIN result.config.domains
                    /\ result.config.domains[key] = new_config.domains[key]

\* C15 as claimed: the written document holds only user domains that at
\* least one of its entries uses, on every path of run_actions.
C15_OnlyUsedDomainsRendered ==
    pc = "written" =>
        \A key \in DOMAIN written.domains :
            \E k \in 1..Len(written.config) : written.config[k].domain = key

\* C16 as claimed: a document whose `domains` section declares the key of a
\* built-in domain is rejected by the parser; no SystemConfig comes of it.
C16_ShadowRejected ==
    (pc # "load" /\ DOMAIN documents.new.domains \cap BuiltinKeys # {}) =>
        /\ result.status = "raised"
        /\ new_config = EmptyConfig

\* C17: no SystemConfig holds two entries with one EntryId: a document that
\* lists an EntryId twice is rejected by the parser, the parsed configs have
\* distinct EntryIds, and at every point of the execution loop the old side
\* and the new side of the transitioner share no EntryId, so neither does
\* the config that is returned.
C17_DistinctEntryIds ==
    /\ (pc # "load" /\ (~DistinctIds(documents.old.config)
                        \/ ~DistinctIds(documents.new.config))) =>
            /\ pc = "done"
            /\ result.status = "raised"
            /\ old_config = EmptyConfig
            /\ new_config = EmptyConfig
    /\ DistinctIds(old_config.config_entries)
    /\ DistinctIds(new_config.config_entries)
    /\ DistinctIds(interp.new_config_entries \o interp.old_config_entries)
    /\ DistinctIds(get_system_config(interp).config_entries)
    /\ DistinctIds(result.config.config_entries)

\* a Remove was skipped and an Update committed: both sides hold an entry
C17_Witness ==
    /\ pc = "done"
    /\ result.status = "returned"
    /\ Len(interp.old_config_entries) = 1
    /\ Len(interp.new_config_entries) = 1
    /\ Len(log) = 2
    /\ log[1].outcome = "SKIPPED"
    /\ actions[log[2].idx].kind = "Update"
    /\ log[2].outcome = "SUCCESS"

\* no script is listed twice
NoRepeat(scripts) == \A j, k \in 1..Len(scripts) : scripts[j] = scripts[k] => j = k

\* C18 as claimed: every SystemConfig the parser produces has no two equal
\* scripts within before_actions and none within after_actions.
C18_NoRepeatedScripts ==
    (pc = "start") =>
        /\ NoRepeat(new_config.before_actions)
        /\ NoRepeat(new_config.after_actions)


\* ------------------------------------------------ the error handler
\* C19: try_run runs the task at most 5 times; when the task raises a
\* whitelisted exception each time and the answer is Retry each time, try_run
\* has returned Failed after the fifth attempt, the task having run 5 times.
C19_FiveAttempts ==
    /\ handler.runs <= 5
    /\ handler.attempt <= 5
    /\ (Len(handler.answers) = 5 /\ \A k \in 1..5 : handler.answers[k] = "r") =>
            /\ handler.at = "done"
            /\ handler.status = "FAILED"
            /\ handler.runs = 5

C19_Witness ==
    /\ handler.answers = <<"r", "r", "r", "r", "r">>
    /\ handler.status = "FAILED"
    /\ handler.runs = 5

\* C20 as claimed: an unrecognized answer at the prompt only causes a
\* re-prompt: the task is not run again because of it and it takes none of
\* the 5 attempts.
C20_InvalidReprompts ==
    [][(/\ handler.at = "prompt"
        /\ Len(handler'.answers) = Len(handler.answers) + 1
        /\ handler'.answers[Len(handler'.answers)] = "invalid") =>
            /\ handler'.at = "prompt"
            /\ handler'.attempt = handler.attempt
            /\ handler'.runs = handler.runs
      ]_vars


\* C21: an exception of the task whose type is not among self.exceptions
\* leaves try_run: that call of the task is the last one, the user is not
\* prompted for it, and try_run gives no Status.
C21_OtherExceptionEscapes ==
    \A k \in 1..Len(handler.outcomes) :
        handler.outcomes[k] = "other" =>
            /\ k = Len(handler.outcomes)
            /\ handler.at = "done"
            /\ handler.status = "raised"
            /\ handler.runs = k
            /\ Len(handler.answers) = k - 1

\* a whitelisted failure was retried, then the task raised another exception
C21_Witness ==
    /\ handler.outcomes = <<"whitelisted", "other">>
    /\ handler.answers = <<"r">>
    /\ handler.status = "raised"


\* ------------------------------------------------ the SequenceTransitioner
\* the items a transitioner was created with that are still in its old list
Untouched(t) == SelectSeq(t.initial, LAMBDA x : In(x, t.old_items))

\* C22 as claimed: after update_item calls that all passed their assertions,
\* get_current_items() holds each element exactly once: first the new items
\* in the order they were appended, then the untouched old items in their
\* original order.
C22_CurrentIsPermutation ==
    transitioner.legal =>
        LET current == get_current_items(transitioner)
        IN  /\ current = transitioner.new_items \o Untouched(transitioner)
            /\ \A j, k \in 1..Len(current) : current[j] = current[k] => j = k

\* C23: update_item raises exactly when both arguments are None, or old_item
\* is given and not in old_items, or new_item is given and already in
\* new_items; a call that does not raise removes old_item (if given) from
\* old_items, appends new_item (if given) to new_items, and changes nothing
\* else.
C23_UpdateItem ==
    [][transitioner'.calls = transitioner.calls + 1 =>
          LET old_item == transitioner'.last.old_item
              new_item == transitioner'.last.new_item
              rejected == \/ (old_item = NoneItem /\ new_item = NoneItem)
                          \/ (old_item # NoneItem /\ ~In(old_item, transitioner.old_items))
                          \/ (new_item # NoneItem /\ In(new_item, transitioner.new_items))
          IN  /\ transitioner'.last.raised <=> rejected
              /\ ~rejected =>
                     /\ transitioner'.old_items =
                            IF old_item = NoneItem THEN transitioner.old_items
                            ELSE SelectSeq(transitioner.old_items, LAMBDA x : x # old_item)
                     /\ transitioner'.new_items =
                            IF new_item = NoneItem THEN transitioner.new_items
                            ELSE transitioner.new_items \o <<new_item>>
                     /\ transitioner'.initial = transitioner.initial
      ]_vars

\* a call that moved one item and one that was rejected for a new item
\* already appended
C23_Witness ==
    /\ transitioner.initial = <<"a", "b">>
    /\ transitioner.calls = 3
    /\ transitioner.old_items = <<"b">>
    /\ transitioner.new_items = <<"c">>
    /\ transitioner.last = [old_item |-> NoneItem, new_item |-> "c", raised |-> TRUE]


\* ------------------------------------------------ the history file
\* C24: ApplyCommand.run calls write_file_contents exactly once per run, after
\* run_actions has returned, whatever the outcomes of the actions: no write
\* has happened while run_actions is still running, a run whose run_actions
\* returned can write, and after the write nothing is written again.
C24_WrittenOnceAtEnd ==
    /\ writes <= 1
    /\ (writes = 1) <=> (pc \in {"written", "write_failed"})
    /\ (writes = 1) => result.status = "returned"
    /\ (pc = "done" /\ result.status = "returned") => ENABLED WriteCurrent
    /\ (pc \in {"written", "write_failed"}) => ~ENABLED NextApply

\* a run in which one action succeeded, the next one was aborted, and the
\* current config was then written
C24_Witness ==
    /\ pc = "written"
    /\ writes = 1
    /\ Len(log) = 2
    /\ log[1].outcome = "SUCCESS"
    /\ log[2].outcome = "FAILED"
    /\ written = render_config(result.config)


\* ------------------------------------------------------------------ Diff
\* the sequence s lists elements of the sequence of distinct items whole, in
\* whole's order, each once
KeepsOrderOf(s, whole) == s = SelectSeq(whole, LAMBDA x : In(x, s))

\* C25: for sequences old and new of distinct elements, exclusive_old and
\* intersection are disjoint and together are old as sets, exclusive_new and
\* intersection are disjoint and together are new as sets, exclusive_old
\* keeps old's order and exclusive_new keeps new's order.
C25_DiffPartitions ==
    call.fn = "create_from_iterables" =>
        LET old == call.args[1]
            new == call.args[2]
            d == call.value
        IN  /\ Range(d.exclusive_old) \cap Range(d.intersection) = {}
            /\ Range(d.exclusive_old) \cup Range(d.intersection) = Range(old)
            /\ Range(d.exclusive_new) \cap Range(d.intersection) = {}
            /\ Range(d.exclusive_new) \cup Range(d.intersection) = Range(new)
            /\ KeepsOrderOf(d.exclusive_old, old)
            /\ KeepsOrderOf(d.exclusive_new, new)

\* both sequences have an element of their own and share one element
C25_Witness ==
    /\ call.fn = "create_from_iterables"
    /\ call.args = << <<"a", "b">>, <<"c", "b">> >>
    /\ call.value.exclusive_old = <<"a">>
    /\ call.value.exclusive_new = <<"c">>
    /\ call.value.intersection = <<"b">>

\* C26: for a Diff of sequences of distinct elements, union is exclusive_old
\* followed by all of new in new's order and holds no element twice, and
\* intersection lists the common elements in new's order.
C26_UnionAndIntersection ==
    call.fn = "create_from_iterables" =>
        LET old == call.args[1]
            new == call.args[2]
            d == call.value
        IN  /\ d.union = d.exclusive_old \o new
            /\ \A j, k \in 1..Len(d.union) : d.union[j] = d.union[k] => j = k
            /\ Range(d.intersection) = Range(old) \cap Range(new)
            /\ KeepsOrderOf(d.intersection, new)

\* the common elements come in one order in old and in the other in new
C26_Witness ==
    /\ call.fn = "create_from_iterables"
    /\ call.args = << <<"a", "b", "c">>, <<"c", "b">> >>
    /\ call.value.intersection = <<"c", "b">>
    /\ call.value.union = <<"a", "c", "b">>

\* C27: the pair stream is (old, None) for each item of exclusive_old in
\* old's order, then (old?, new) for each item of new in new's order, old?
\* being the item exactly when old has it too; no pair is (None, None), and
\* each element of old is the old side of exactly one pair and each element
\* of new the new side of exactly one pair.
C27_PairStream ==
    call.fn = "get_entries" =>
        LET old == call.args[1]
            new == call.args[2]
            only_old == SelectSeq(old, LAMBDA x : ~In(x, new))
            entries == call.value
        IN  /\ Len(entries) = Len(only_old) + Len(new)
            /\ \A k \in 1..Len(only_old) :
                   entries[k] = [old_item |-> only_old[k], new_item |-> NoneItem]
            /\ \A k \in 1..Len(new) :
                   entries[Len(only_old) + k] =
                       [old_item |-> IF In(new[k], old) THEN new[k] ELSE NoneItem,
                        new_item |-> new[k]]
            /\ \A k \in 1..Len(entries) :
                   entries[k].old_item # NoneItem \/ entries[k].new_item # NoneItem
            /\ \A x \in Range(old) :
                   Cardinality({k \in 1..Len(entries) : entries[k].old_item = x}) = 1
            /\ \A x \in Range(new) :
                   Cardinality({k \in 1..Len(entries) : entries[k].new_item = x}) = 1

\* a removed item, a kept item and an added item in one stream
C27_Witness ==
    /\ call.fn = "get_entries"
    /\ call.args = << <<"a", "b">>, <<"c", "b">> >>
    /\ call.value = << [old_item |-> "a", new_item |-> NoneItem],
                       [old_item |-> NoneItem, new_item |-> "c"],
                       [old_item |-> "b", new_item |-> "b"] >>


C29_RoundTrip ==
    pc = "reparsed" =>
        /\ call.value.status = "parsed"
        /\ SystemConfig_eq(call.value.config, new_config)


\* ------------------------------------------------- the version-only document
\* C30 as claimed: a document with the version key only is valid and parses
\* to an empty SystemConfig, and applying such a new document against such an
\* old one prints only '# No changes required.' and runs no command.
C30_VersionOnly ==
    /\ (pc # "load" /\ documents.old = VersionOnlyDocument) =>
            /\ result.status # "raised"
            /\ old_config = EmptyConfig
    /\ (pc # "load" /\ documents.new = VersionOnlyDocument) =>
            /\ result.status # "raised"
            /\ new_config = EmptyConfig
    /\ (/\ pc \in {"done", "written", "write_failed"}
        /\ documents.old = VersionOnlyDocument
        /\ documents.new = VersionOnlyDocument) =>
            /\ result.status = "returned"
            /\ stdout[1] = NoChangesLine
            /\ pc # "write_failed" => Len(stdout) = 1
            /\ log = <<>>


\* ------------------------------------------------------ script templates
\* C31 as claimed: for a path of at least 10 segments the text `$key10` gives
\* the 10th path segment, never the 1st segment followed by '0'.
C31_LongerNameFirst ==
    (/\ call.fn = "run"
     /\ call.args.script = <<"$key", "1", "0">>
     /\ Len(call.args.path) >= 10) =>
        /\ call.value = call.args.path[10]
        /\ call.value # call.args.path[1] \o <<"0">>


\* one pass over the script, left to right: where a variable name stands
\* (the first of the dict when several do), its value is written and the pass
\* goes on behind the name, so that no inserted text is looked at again
RECURSIVE SinglePassFrom(_, _, _)
SinglePassFrom(script, k, variables) ==
    IF k > Len(script) THEN <<>>
    ELSE LET hits == {j \in 1..Len(variables) : MatchesAt(script, k, variables[j].name)}
         IN  IF hits = {} THEN <<script[k]>> \o SinglePassFrom(script, k + 1, variables)
             ELSE LET first == CHOOSE j \in hits : \A i \in hits : j <= i
                  IN  variables[first].value
                      \o SinglePassFrom(script, k + Len(variables[first].name), variables)

\* C32 as claimed: interpolation is non-recursive: the text inserted for one
\* variable is never scanned for other variables, so a path segment or value
\* that reads `$value`, `$key` or `$old_value` is in the script verbatim.
C32_NonRecursive ==
    call.fn = "run" =>
        call.value = SinglePassFrom(call.args.script, 1,
                                    run_variables(call.args.kind, call.args.path,
                                                  call.args.old_value, call.args.new_value))


\* ------------------------------------------------------ flattening
\* the path leads through mappings only, down to some value of the tree
RECURSIVE Reaches(_, _)
Reaches(tree, path) ==
    \/ path = <<>>
    \/ /\ tree.type = "map"
       /\ Head(path) \in DOMAIN tree.items
       /\ Reaches(tree.items[Head(path)], Tail(path))

\* the value a path that Reaches leads to
RECURSIVE ValueAt(_, _)
ValueAt(tree, path) ==
    IF path = <<>> THEN tree ELSE ValueAt(tree.items[Head(path)], Tail(path))

\* C33: get_flattened_dict(tree, depth) raises exactly when a value above
\* level depth is neither a mapping nor null; otherwise the keys of its
\* result are all the paths of length exactly depth that lead through
\* mappings, each with the value found there (so depth 0 gives the whole tree
\* at the path ()), and a null above level depth contributes no path.
C33_FlattenedDict ==
    call.fn = "get_flattened_dict" =>
        LET tree == call.args.data
            depth == call.args.path_depth
            above == {p \in SeqsUpTo(TreeKeys, depth) : Len(p) < depth /\ Reaches(tree, p)}
            at == {p \in SeqsUpTo(TreeKeys, depth) : Len(p) = depth /\ Reaches(tree, p)}
        IN  /\ call.value.raised <=> \E p \in above : ValueAt(tree, p).type = "leaf"
            /\ ~call.value.raised =>
                   /\ DOMAIN call.value.map = at
                   /\ \A p \in at : call.value.map[p] = ValueAt(tree, p)
                   /\ \A p \in above : ValueAt(tree, p).type = "null" =>
                          \A q \in DOMAIN call.value.map : SubSeq(q, 1, Len(p)) # p

\* depth 2 over a tree with a null at level 1 and a mapping beside it
C33_Witness ==
    /\ call.fn = "get_flattened_dict"
    /\ call.args.path_depth = 2
    /\ call.args.data.type = "map"
    /\ DOMAIN call.args.data.items = {"a", "b"}
    /\ call.args.data.items["a"].type = "null"
    /\ call.args.data.items["b"].type = "map"
    /\ ~call.value.raised
    /\ DOMAIN call.value.map = {<<"b", "a">>}
    /\ call.value.map[<<"b", "a">>] = LeafTree


\* ------------------------------------------------ mark as successful
\* the user's last answer in the current try_run was Mark-as-successful
MarkedSuccessful(h) ==
    /\ Len(h.answers) > 0
    /\ h.answers[Len(h.answers)] = "m"

\* the new-side item of the current step is in the config
ShowsNewItem(config) ==
    CASE pc = "before" -> In(before_entries[idx].new_item, config.before_actions)
      [] pc = "domain" ->
            IF actions[idx].new_entry # NoneEntry
            THEN In(actions[idx].new_entry, config.config_entries)
            ELSE ~In(get_id(actions[idx].old_entry), Keys(config))
      [] pc = "after" -> In(after_entries[idx].new_item, config.after_actions)

\* C34: when the task failed and the user answers Mark-as-successful, try_run
\* returns SUCCESS without running the task again, and the step of
\* run_actions then does what it does for a task that succeeded: the
\* matching update_* call is made and its result is the current config,
\* which shows the step's new-side item.
C34_MarkedCommits ==
    [][/\ (handler.at = "prompt" /\ MarkedSuccessful(handler')
           /\ Len(handler'.answers) = Len(handler.answers) + 1) =>
              /\ handler'.at = "done"
              /\ handler'.status = "SUCCESS"
              /\ handler'.runs = handler.runs
       /\ (handler.at = "done" /\ MarkedSuccessful(handler) /\ handler'.at = "idle") =>
              /\ log' = Append(log, [phase |-> pc, idx |-> idx, outcome |-> "SUCCESS"])
              /\ interp' = StepUpdate.ci
              /\ ~StepUpdate.raised => committed' = Append(committed, <<pc, idx>>)
              /\ ShowsNewItem(get_system_config(interp'))
      ]_vars

\* an Update whose command failed once and was marked as successful: the
\* returned config holds the new entry
C34_Witness ==
    /\ pc = "done"
    /\ result.status = "returned"
    /\ handler.outcomes = <<"whitelisted">>
    /\ handler.answers = <<"m">>
    /\ handler.runs = 1
    /\ Len(actions) = 1
    /\ actions[1].kind = "Update"
    /\ committed = <<<<"domain", 1>>>>
    /\ In(actions[1].new_entry, result.config.config_entries)

\* ------------------------------------- the interpolator as three transitioners
\* the interpolator's three sequences are those of the three transitioners
SameSequences(config, t) ==
    /\ config.before_actions = get_current_items(t.before_actions)
    /\ config.config_entries = get_current_items(t.config_entries)
    /\ config.after_actions = get_current_items(t.after_actions)

\* C35 as claimed: after any sequence of update_before_action,
\* update_config_entry and update_after_action calls, get_system_config()
\* gives a config whose before_actions, entries and after_actions each equal
\* get_current_items() of a SequenceTransitioner created from the old
\* sequence and given the same updates, and an update of one of the three
\* leaves the other two as they were.
C35_ThreeTransitioners ==
    [][/\ Returned(interp').status = "returned"
       /\ SameSequences(Returned(interp').config, transitioner')
       /\ \/ /\ interp'.old_config_entries = interp.old_config_entries
             /\ interp'.new_config_entries = interp.new_config_entries
             /\ interp'.old_after_actions = interp.old_after_actions
             /\ interp'.new_after_actions = interp.new_after_actions
          \/ /\ interp'.old_before_actions = interp.old_before_actions
             /\ interp'.new_before_actions = interp.new_before_actions
             /\ interp'.old_after_actions = interp.old_after_actions
             /\ interp'.new_after_actions = interp.new_after_actions
          \/ /\ interp'.old_before_actions = interp.old_before_actions
             /\ interp'.new_before_actions = interp.new_before_actions
             /\ interp'.old_config_entries = interp.old_config_entries
             /\ interp'.new_config_entries = interp.new_config_entries
      ]_vars

\* ------------------------------------------------------ a rejected update
\* C40 as claimed: when update_item is called with an old item that is in
\* old_items and a new item that is already in new_items, the call raises,
\* the old item is still in old_items afterwards, and get_current_items()
\* is what it was before the call.
C40_RejectedUnchanged ==
    [][(/\ transitioner'.calls = transitioner.calls + 1
        /\ transitioner'.last.old_item # NoneItem
        /\ In(transitioner'.last.old_item, transitioner.old_items)
        /\ transitioner'.last.new_item # NoneItem
        /\ In(transitioner'.last.new_item, transitioner.new_items)) =>
           /\ transitioner'.last.raised
           /\ In(transitioner'.last.old_item, transitioner'.old_items)
           /\ get_current_items(transitioner') = get_current_items(transitioner)
      ]_vars

\* ------------------------------------------- scripts only the old config has
\* the (old?, new?) pair of the before or after step about to be taken
ScriptStepEntry == IF pc = "before" THEN before_entries[idx] ELSE after_entries[idx]

\* the before or after scripts of a config, whichever the step is about
ScriptsOfPhase(config) ==
    IF pc = "before" THEN config.before_actions ELSE config.after_actions

\* C37: the step of a before or after script that only old_config has runs
\* nothing through the error handler and prints nothing; it removes the
\* script from the current config, changes nothing else of it, and goes on
\* to the next step: it is neither skipped nor the end of the run.
C37_OldOnlyScriptNotRun ==
    [][(pc \in {"before", "after"} /\ ScriptStepEntry.new_item = NoneScript) =>
          /\ log' = log
          /\ stdout' = stdout
          /\ result' = result
          /\ <<pc', idx'>> = NextPos
          /\ committed' = Append(committed, <<pc, idx>>)
          /\ ScriptsOfPhase(get_system_config(interp')) =
                 ListRemove(ScriptsOfPhase(get_system_config(interp)),
                            ScriptStepEntry.old_item)
          /\ get_system_config(interp').config_entries =
                 get_system_config(interp).config_entries
          /\ IF pc = "before"
             THEN get_system_config(interp').after_actions =
                      get_system_config(interp).after_actions
             ELSE get_system_config(interp').before_actions =
                      get_system_config(interp).before_actions
      ]_vars

\* a run whose only change is a before script that new_config dropped: the
\* step was taken, nothing was run, and the returned config has no script
C37_Witness ==
    /\ pc = "done"
    /\ result.status = "returned"
    /\ old_config.before_actions = <<"s1">>
    /\ new_config.before_actions = <<>>
    /\ before_entries = <<[old_item |-> "s1", new_item |-> NoneScript]>>
    /\ committed = <<<<"before", 1>>>>
    /\ log = <<>>
    /\ result.config.before_actions = <<>>

\* ------------------------------------------- the scripts a run executes
\* the scripts handed to the error handler so far by the before loop or by
\* the after loop, in the order they were handed over
Executed(phase) ==
    LET ran == SelectSeq(log, LAMBDA l : l.phase = phase)
        entries == IF phase = "before" THEN before_entries ELSE after_entries
    IN  [k \in 1..Len(ran) |-> entries[ran[k].idx].new_item]

StartsWith(items, start) ==
    /\ Len(start) <= Len(items)
    /\ start = SubSeq(items, 1, Len(start))

\* run_actions is over and did not take the 'No changes required' path
RunWithChanges ==
    /\ pc = "done"
    /\ ~get_domain_actions_raises(old_config, new_config)
    /\ has_changes(old_config, new_config)

\* C36 as claimed: on any run that has changes, every script of
\* new_config.before_actions and of new_config.after_actions is executed
\* through the error handler, in new_config order.
C36_EveryNewScriptRuns ==
    RunWithChanges =>
        /\ Executed("before") = new_config.before_actions
        /\ Executed("after") = new_config.after_actions

\* C36 amended: on a run that has changes, the scripts the before loop and
\* the after loop have executed through the error handler are at every
\* moment the first scripts of new_config.before_actions and of
\* new_config.after_actions, scripts that old_config also has included; when
\* the three loops run out (no step Failed, no interrupt, no exception)
\* every script of both has been executed, in new_config order. On the
\* 'No changes required' path nothing is executed.
C36_NewScriptsRunInOrder ==
    /\ StartsWith(new_config.before_actions, Executed("before"))
    /\ StartsWith(new_config.after_actions, Executed("after"))
    /\ pc = "return" =>
           /\ Executed("before") = new_config.before_actions
           /\ Executed("after") = new_config.after_actions
    /\ stdout = <<NoChangesLine>> => log = <<>>

\* the loops ran out on a run whose after scripts are one that old_config
\* has too and one it has not: both were executed
C36_Witness ==
    /\ pc = "return"
    /\ old_config.after_actions = <<"s1">>
    /\ new_config.after_actions = <<"s1", "s2">>
    /\ after_entries[1] = [old_item |-> "s1", new_item |-> "s1"]
    /\ Executed("after") = <<"s1", "s2">>
    /\ Len(log) = 2

\* ------------------------------------------------------------ convergence
\* C38 as claimed: if run_actions(old, new) ends with every step Success and
\* returns R, then a run with old_config = R and the same new_config has no
\* changes: every domain action is NoOp, the before and the after sequences
\* are equal, and nothing is executed.
C38_Convergence ==
    (pc = "done" /\ result.status = "returned" /\ AllSuccess) =>
        LET R == result.config
        IN  /\ ~get_domain_actions_raises(R, new_config)
            /\ \A k \in 1..Len(get_domain_actions(R, new_config)) :
                   get_domain_actions(R, new_config)[k].kind = "NoOp"
            /\ R.before_actions = new_config.before_actions
            /\ R.after_actions = new_config.after_actions
            /\ ~has_changes(R, new_config)

\* --------------------------------------------------- the plan of a next run
\* the EntryId a domain action is about
ActionEntryId(action) ==
    get_id(IF action.new_entry # NoneEntry THEN action.new_entry ELSE action.old_entry)

\* C39: when run_actions returned R, the plan computed from old_config = R
\* and the same new_config holds, for every Add, Update or Remove step that
\* was Skipped, an action of the same kind for the same EntryId, and for
\* every domain step that was committed a NoOp for its EntryId or no action
\* at all.
C39_SkippedPlannedAgain ==
    (pc = "done" /\ result.status = "returned" /\ actions # <<>>) =>
        LET R == result.config
            plan == get_domain_actions(R, new_config)
        IN  /\ ~get_domain_actions_raises(R, new_config)
            /\ \A j \in 1..Len(log) :
                   (log[j].phase = "domain" /\ log[j].outcome = "SKIPPED") =>
                       \E k \in 1..Len(plan) :
                           /\ plan[k].kind = actions[log[j].idx].kind
                           /\ plan[k].kind \in {"Add", "Update", "Remove"}
                           /\ ActionEntryId(plan[k]) = ActionEntryId(actions[log[j].idx])
            /\ \A j \in 1..Len(committed) :
                   committed[j][1] = "domain" =>
                       \A k \in 1..Len(plan) :
                           ActionEntryId(plan[k]) = ActionEntryId(actions[committed[j][2]])
                               => plan[k].kind = "NoOp"

\* a run that skipped an Update and committed an Add: the next plan updates
\* the first entry again and has a NoOp for the second
C39_Witness ==
    /\ pc = "done"
    /\ result.status = "returned"
    /\ Len(actions) = 2
    /\ actions[1].kind = "Update"
    /\ actions[2].kind = "Add"
    /\ log = <<[phase |-> "domain", idx |-> 1, outcome |-> "SKIPPED"],
               [phase |-> "domain", idx |-> 2, outcome |-> "SUCCESS"]>>
    /\ committed = <<<<"domain", 2>>>>
    /\ LET plan == get_domain_actions(result.config, new_config)
       IN  /\ \E k \in 1..Len(plan) :
                  plan[k].kind = "Update" /\ plan[k].new_entry = actions[1].new_entry
           /\ \E k \in 1..Len(plan) :
                  plan[k].kind = "NoOp" /\ plan[k].new_entry = actions[2].new_entry

====
